---- MODULE Spec2Model ----
(***************************************************************************)
(* Meeting recorder: the HTTP start and stop routes, the recording manager *)
(* (GoogleMeetRecordingManager) and the media client (MeetMediaAPIClient). *)
(*                                                                         *)
(* One action is one JavaScript task: the code that runs from the moment a *)
(* request, a timer, a network reply or a media event is dispatched up to  *)
(* the next await of something that is not already settled.                *)
(***************************************************************************)
EXTENDS Integers, Sequences, FiniteSets, TLC

(***************************************************************************)
(* Bounds of the model.                                                    *)
(***************************************************************************)
MaxChunks == 2        \* chunks the recorder delivers to one capture
MaxChunkSize == 1     \* size of a delivered chunk that is not an empty buffer
MaxTicks == 1         \* chunk-collection ticks that run for one session
MaxClock == 1         \* readings the wall clock can advance by
MaxRestarts == 1      \* capture restarts whose old recorder is still pending
MaxMsgs == 3          \* data-channel messages one client receives
MaxGroups == 4        \* hyphen-separated groups of a meeting code that is tried
TimerLagMs == 2000    \* how late a 500 ms sleep of waitForMediaStreams wakes
MaxPollMs == 5000     \* how long a conference poll and a late timer can add
MaxMedia == 2         \* media sections of an offer

(***************************************************************************)
(* Program constants.                                                      *)
(***************************************************************************)
ConferenceTimeoutMs == 30000
ConferenceIntervalMs == 5000
StreamsTimeoutMs == 10000
StreamsIntervalMs == 500

(***************************************************************************)
(* Universes.                                                              *)
(***************************************************************************)
\* Request slots of the start route.  Each request that passes the route's
\* checks builds its own manager (start/route.ts:73), which builds its own
\* media client (recording-manager.ts:68), so a slot also names both.
Reqs == {"r1", "r2"}
\* A string is the sequence of its characters.
CodeA == <<"a", "b", "c", "-", "d", "e", "f", "g", "-", "h", "i", "j">>
CodeB == <<"x", "y", "z", "-", "a", "b", "c", "d", "-", "e", "f", "g">>
\* Well-formed meeting codes.
Codes == {CodeA, CodeB}
\* body.meetingCode is missing, or the empty string.
NoCode == <<>>
\* Codes a start request may carry that the route turns down: none, and one
\* without hyphens.
BadCodes == {NoCode, <<"a", "b", "c", "d", "e", "f", "g", "h", "i", "j">>}
RouteCodes == Codes \cup BadCodes
\* Callers of the manager's stopRecording.
Callers == {"k1", "k2"}
None == "none"
\* generateSessionId: one id per startRecording call, unique in the process.
Sid(r) == "session_" \o r
SessionIds == {Sid(r) : r \in Reqs} \cup {"session_unknown"}

Tracks == {"a1", "v1"}
StreamIds == {"s1"}
TrackKind(t) == IF t \in {"a1", "a2"} THEN "audio" ELSE "video"
TrackStream(t) == "s1"
\* The tracks the transport delivers while two start requests are followed.
StartTracks == {"a1"}
\* The tracks the transport delivers while one client alone is followed: two
\* audio tracks and a video track of the same remote stream.
ClientTracks == {"a1", "a2", "v1"}

\* The tracks already in the registry when a recording session is followed;
\* those of StartTracks arrive and end while it records.
RecordedTracks == Tracks \ StartTracks

\* event.data.size of the buffers a recorder delivers: empty or not.
ChunkSizes == {0, MaxChunkSize}

\* Participants named in data-channel messages, and their display names.
Pids == {"p1", "p2"}
Names == {"Ann", ""}

VARIABLES
  pc,               \* start route: where each request is
  code,             \* start route: body.meetingCode of each request
  resp,             \* start route: HTTP status answered (0 = none yet)
  activeRecordings, \* start route: Map meetingCode -> sessionData (by owner)
  sessionData,      \* start route: the sessionData object of each request
  cleanupTimer,     \* start route: the 60 s setTimeout is pending
  stopRecordings,   \* stop route: the keys of its own activeRecordings Map
  stopResp,         \* stop route: HTTP status last answered per code
  elapsed,          \* ms spent in the wait loop the request is in
  activeSessions,   \* manager: the keys of its activeSessions Map
  session,          \* manager: the RecordingSession object it built
  client,           \* the MeetMediaAPIClient of each manager
  hist,             \* what each start request went through
  now,              \* Date.now()
  caller,           \* callers of stopRecording
  tick,             \* participant tick suspended at its await
  turn              \* the flow whose continuations are running, or None

vars == <<pc, code, resp, activeRecordings, sessionData, cleanupTimer,
          stopRecordings, stopResp, elapsed, activeSessions, session, client,
          hist, now, caller, tick, turn>>

RECURSIVE Sum(_)
Sum(s) == IF s = <<>> THEN 0 ELSE Head(s) + Sum(Tail(s))

(***************************************************************************)
(* Objects as they are constructed.                                        *)
(***************************************************************************)
EmptyStream == [audio |-> None, video |-> None]

\* ParticipantInfo (a slot of the participants Map that holds no entry).
NoParticipant ==
  [id |-> "", displayName |-> "", isPresenting |-> FALSE,
   audioEnabled |-> FALSE, videoEnabled |-> FALSE]

\* local and remote say that the peer connection has a local and a remote
\* description; localSetups holds the values of the a=setup attributes of
\* the local one.
NewClient ==
  [exists |-> FALSE, pcOpen |-> FALSE, dc |-> None, transport |-> None,
   local |-> FALSE, localSetups |-> {}, remote |-> FALSE,
   isConnected |-> FALSE, isRecording |-> FALSE, recorder |-> None,
   hasStream |-> FALSE, streamTracks |-> {},
   streamKeys |-> {}, remoteStreams |-> [s \in StreamIds |-> EmptyStream],
   live |-> {}, delivered |-> {},
   combinedChunks |-> <<>>, startTime |-> 0, endTime |-> -1,
   stopPending |-> FALSE, stopWaiter |-> None, oldPending |-> 0,
   log |-> <<>>,
   participantKeys |-> {}, participants |-> [p \in Pids |-> NoParticipant],
   received |-> <<>>]

NoSession ==
  [id |-> None, meetingCode |-> NoCode, startTime |-> 0, endTime |-> -1,
   chunks |-> <<>>, status |-> None, totalSize |-> 0,
   chunkInterval |-> FALSE, participantInterval |-> FALSE]

NoSessionData == [status |-> None, sessionId |-> ""]

\* polls counts the getActiveConference calls of the conference wait that is
\* in progress or that failed; conference says that one of them reported an
\* active conference.  sawConnected says that waitForMediaStreams read the
\* connection state 'connected'.  offer holds the a=setup values of
\* connectToMeeting's modifiedOffer; submitted says that it was sent to the
\* Meet API, with the a=setup values submittedSetups, and answered that the
\* exchange returned an answer.  erred says that the poll of the conference
\* wait that settled last raised an error other than not-found, and allErred
\* that every poll of the wait that has settled did.
NoHist == [stage |-> None, connAtStart |-> FALSE, liveAtQuery |-> FALSE,
           liveAtEnd |-> FALSE, polls |-> 0, conference |-> FALSE,
           erred |-> FALSE, allErred |-> TRUE,
           sawConnected |-> FALSE, offer |-> {}, submitted |-> FALSE,
           submittedSetups |-> {}, answered |-> FALSE]

\* What a start that succeeded has left in it (SucceedStart below).
StartedHist ==
  [NoHist EXCEPT !.stage = "ok", !.connAtStart = TRUE, !.liveAtQuery = TRUE,
                 !.liveAtEnd = TRUE, !.conference = TRUE,
                 !.sawConnected = TRUE, !.offer = {"active"},
                 !.submitted = TRUE, !.submittedSetups = {"active"},
                 !.answered = TRUE]

\* A caller of the manager: of stopRecording (mgr = the manager, id = the
\* session id, slot = the session object the table gave it) or of
\* forceStopAllRecordings (todo = the ids its loop has still to stop, snap =
\* the ids it read from the table, tried = the outcome of each stop so far).
NoCaller == [pc |-> "idle", mgr |-> None, id |-> None, result |-> None,
             size |-> -1, finalSize |-> -1, slot |-> None, force |-> FALSE,
             todo |-> <<>>, snap |-> <<>>, tried |-> <<>>]

(***************************************************************************)
(* MeetMediaAPIClient (src/lib/oauth-service.ts, from line 240).           *)
(***************************************************************************)
\* The live tracks of the registry, as updateRecordingStream collects them.
CombinedTracks(cl) ==
  {t \in Tracks \cup ClientTracks : /\ TrackStream(t) \in cl.streamKeys
                  /\ t \in cl.live
                  /\ \/ cl.remoteStreams[TrackStream(t)].audio = t
                     \/ cl.remoteStreams[TrackStream(t)].video = t}

\* A plausible slip: the restart begins a new chunk list.
UpdateRecordingStreamFresh(cl) ==
  IF ~cl.isRecording THEN cl
  ELSE LET c1 == [cl EXCEPT !.hasStream = TRUE,
                            !.streamTracks = CombinedTracks(cl)]
       IN IF c1.recorder = "recording"
          THEN [c1 EXCEPT !.oldPending = @ + 1, !.combinedChunks = <<>>]
          ELSE c1

\* A plausible slip: the restart does not look at the recorder's state.
UpdateRecordingStreamAnyState(cl) ==
  IF ~cl.isRecording THEN cl
  ELSE LET c1 == [cl EXCEPT !.hasStream = TRUE,
                            !.streamTracks = CombinedTracks(cl)]
       IN IF c1.recorder # None
          THEN [c1 EXCEPT !.oldPending = @ + 1, !.recorder = "recording"]
          ELSE c1

\* updateRecordingStream: does nothing unless a recording is in progress;
\* otherwise rebuilds the combined stream and, when the recorder is running,
\* stops it and starts a new one (the old one still owes its last events).
UpdateRecordingStream(cl) ==
  IF ~cl.isRecording THEN cl
  ELSE LET c1 == [cl EXCEPT !.hasStream = TRUE,
                            !.streamTracks = CombinedTracks(cl)]
       IN IF c1.recorder = "recording"
          THEN [c1 EXCEPT !.oldPending = @ + 1]
          ELSE c1

\* The check startRecording makes after each updateRecordingStream.
NoRecordingStream(cl) == ~cl.hasStream \/ cl.streamTracks = {}

\* startMediaRecorder followed by lines 777-778 of startRecording.
BeginCapture(cl, t) ==
  [cl EXCEPT !.recorder = "recording", !.isRecording = TRUE, !.startTime = t]

\* handleIncomingTrack for a track delivered with its stream.
HandleIncomingTrack(cl, t) ==
  LET s == TrackStream(t)
      old == IF s \in cl.streamKeys THEN cl.remoteStreams[s] ELSE EmptyStream
      new == IF TrackKind(t) = "audio" THEN [old EXCEPT !.audio = t]
             ELSE [old EXCEPT !.video = t]
  IN [cl EXCEPT !.remoteStreams[s] = new,
                !.streamKeys = @ \cup {s},
                !.streamTracks = IF cl.isRecording /\ cl.hasStream
                                 THEN @ \cup {t} ELSE @,
                !.live = @ \cup {t},
                !.delivered = @ \cup {t}]

\* handleTrackEnded(streamId, trackKind).
HandleTrackEnded(cl, s, kind) ==
  IF s \notin cl.streamKeys THEN cl
  ELSE LET old == cl.remoteStreams[s]
           new == IF kind = "audio" THEN [old EXCEPT !.audio = None]
                  ELSE [old EXCEPT !.video = None]
       IN IF new.audio = None /\ new.video = None
          THEN [cl EXCEPT !.remoteStreams[s] = EmptyStream,
                          !.streamKeys = @ \ {s}]
          ELSE [cl EXCEPT !.remoteStreams[s] = new]

\* onconnectionstatechange.
OnConnectionStateChange(cl, st) ==
  LET c1 == [cl EXCEPT !.transport = st]
  IN CASE st = "connected" ->
            UpdateRecordingStream([c1 EXCEPT !.isConnected = TRUE])
       [] st \in {"disconnected", "failed"} -> [c1 EXCEPT !.isConnected = FALSE]
       [] OTHER -> c1

\* disconnect raises when it stops a recorder that is already inactive
\* (MediaRecorder.stop() is an InvalidStateError then).
DisconnectThrows(cl) == cl.isRecording /\ cl.recorder = "inactive"

\* A plausible slip: the peer connection is closed again on every call.
DisconnectAgain(cl) ==
  LET c1 == IF cl.isRecording /\ cl.recorder = "recording"
            THEN [cl EXCEPT !.recorder = "inactive", !.isRecording = FALSE,
                            !.oldPending = @ + 1]
            ELSE cl
      c2 == IF c1.dc = "open" THEN [c1 EXCEPT !.dc = None] ELSE c1
      c3 == IF c2.exists
            THEN [c2 EXCEPT !.pcOpen = FALSE, !.transport = "closed",
                            !.dc = IF @ = None THEN None ELSE "closed",
                            !.live = {},
                            !.log = Append(@, "closed")]
            ELSE c2
  IN [c3 EXCEPT !.streamKeys = {},
                !.remoteStreams = [s \in StreamIds |-> EmptyStream],
                !.participantKeys = {},
                !.participants = [p \in Pids |-> NoParticipant],
                !.hasStream = FALSE, !.streamTracks = {},
                !.isConnected = FALSE]

\* disconnect, when it does not raise.
Disconnect(cl) ==
  LET c1 == IF cl.isRecording /\ cl.recorder = "recording"
            THEN [cl EXCEPT !.recorder = "inactive", !.isRecording = FALSE,
                            !.oldPending = @ + 1]
            ELSE cl
      c2 == IF c1.dc = "open" THEN [c1 EXCEPT !.dc = None] ELSE c1
      c3 == IF c2.pcOpen
            THEN [c2 EXCEPT !.pcOpen = FALSE, !.transport = "closed",
                            !.dc = IF @ = None THEN None ELSE "closed",
                            !.live = {},
                            !.log = Append(@, "closed")]
            ELSE c2
  IN [c3 EXCEPT !.streamKeys = {},
                !.remoteStreams = [s \in StreamIds |-> EmptyStream],
                !.participantKeys = {},
                !.participants = [p \in Pids |-> NoParticipant],
                !.hasStream = FALSE, !.streamTracks = {},
                !.isConnected = FALSE]

(***************************************************************************)
(* Data-channel messages (oauth-service.ts:552-631).  A payload either     *)
(* parses as JSON or not; a parsed message has a type and may lack its     *)
(* data; data names a participant ("" = no participantId), a display name  *)
(* ("" = none) and the updates object (`has` = the fields it supplies).    *)
(***************************************************************************)
NoUpdates == [has |-> {}, val |-> NoParticipant]

Presenting ==
  [has |-> {"isPresenting"}, val |-> [NoParticipant EXCEPT !.isPresenting = TRUE]]

Renamed ==
  [has |-> {"displayName", "videoEnabled"},
   val |-> [NoParticipant EXCEPT !.displayName = "Bob", !.videoEnabled = FALSE]]

\* An updates object that carries an id field of its own.
Reidentified ==
  [has |-> {"id"}, val |-> [NoParticipant EXCEPT !.id = "p2"]]

UpdateSet == {NoUpdates, Presenting, Renamed, Reidentified}

Msg(type, hasData, pid, name, upd) ==
  [json |-> TRUE, type |-> type, hasData |-> hasData, pid |-> pid,
   name |-> name, upd |-> upd]

Malformed ==
  [json |-> FALSE, type |-> "", hasData |-> FALSE, pid |-> "", name |-> "",
   upd |-> NoUpdates]

Messages ==
  {Malformed,
   Msg("reaction", TRUE, "", "", NoUpdates),
   Msg("media_update", TRUE, "", "", NoUpdates),
   Msg("participant_joined", FALSE, "", "", NoUpdates)}
  \cup {Msg("participant_joined", TRUE, p, n, NoUpdates) : p \in Pids, n \in Names}
  \cup {Msg("participant_left", TRUE, p, "", NoUpdates) : p \in Pids}
  \cup {Msg("participant_update", TRUE, p, "", u) : p \in Pids, u \in UpdateSet}

\* A plausible slip: a participant that joins again keeps its old record.
HandleParticipantJoinedOnce(cl, m) ==
  IF m.pid # "" /\ m.name # "" /\ m.pid \notin cl.participantKeys
  THEN [cl EXCEPT
          !.participantKeys = @ \cup {m.pid},
          !.participants[m.pid] =
             [id |-> m.pid, displayName |-> m.name, isPresenting |-> FALSE,
              audioEnabled |-> TRUE, videoEnabled |-> TRUE]]
  ELSE cl

\* handleParticipantJoined(data).
HandleParticipantJoined(cl, m) ==
  IF m.pid # "" /\ m.name # ""
  THEN [cl EXCEPT
          !.participantKeys = @ \cup {m.pid},
          !.participants[m.pid] =
             [id |-> m.pid, displayName |-> m.name, isPresenting |-> FALSE,
              audioEnabled |-> TRUE, videoEnabled |-> TRUE]]
  ELSE cl

\* handleParticipantLeft(data).
HandleParticipantLeft(cl, m) ==
  IF m.pid # ""
  THEN [cl EXCEPT !.participantKeys = @ \ {m.pid},
                  !.participants[m.pid] = NoParticipant]
  ELSE cl

\* Object.assign(participant, updates).
Assign(rec, u) ==
  [id |-> IF "id" \in u.has THEN u.val.id ELSE rec.id,
   displayName |-> IF "displayName" \in u.has THEN u.val.displayName
                   ELSE rec.displayName,
   isPresenting |-> IF "isPresenting" \in u.has THEN u.val.isPresenting
                    ELSE rec.isPresenting,
   audioEnabled |-> IF "audioEnabled" \in u.has THEN u.val.audioEnabled
                    ELSE rec.audioEnabled,
   videoEnabled |-> IF "videoEnabled" \in u.has THEN u.val.videoEnabled
                    ELSE rec.videoEnabled]

\* A plausible slip: the update replaces the record instead of merging.
HandleParticipantUpdateReplaces(cl, m) ==
  IF m.pid # "" /\ m.pid \in cl.participantKeys
  THEN [cl EXCEPT !.participants[m.pid] = Assign([NoParticipant EXCEPT !.id = m.pid], m.upd)]
  ELSE cl

\* handleParticipantUpdate(data).
HandleParticipantUpdate(cl, m) ==
  IF m.pid # "" /\ m.pid \in cl.participantKeys
  THEN [cl EXCEPT !.participants[m.pid] = Assign(@, m.upd)]
  ELSE cl

\* A plausible slip: a payload that cannot be handled closes the channel.
HandleDataChannelMessageStrict(cl, m) ==
  IF ~m.json \/ ~m.hasData
       \/ m.type \notin {"participant_joined", "participant_left",
                         "participant_update", "media_update",
                         "presentation_started", "presentation_stopped"}
  THEN [cl EXCEPT !.dc = "closed"]
  ELSE CASE m.type = "participant_joined" -> HandleParticipantJoined(cl, m)
         [] m.type = "participant_left" -> HandleParticipantLeft(cl, m)
         [] m.type = "participant_update" -> HandleParticipantUpdate(cl, m)
         [] OTHER -> cl

\* handleDataChannelMessage(data): JSON.parse or a handler reading a field of
\* missing data throws inside the try, and the catch only logs.
HandleDataChannelMessage(cl, m) ==
  IF ~m.json THEN cl
  ELSE IF m.type \in {"participant_joined", "participant_left",
                      "participant_update"} /\ ~m.hasData
  THEN cl
  ELSE CASE m.type = "participant_joined" -> HandleParticipantJoined(cl, m)
         [] m.type = "participant_left" -> HandleParticipantLeft(cl, m)
         [] m.type = "participant_update" -> HandleParticipantUpdate(cl, m)
         [] OTHER -> cl

(***************************************************************************)
(* GoogleMeetRecordingManager (src/lib/recording-manager.ts).              *)
(***************************************************************************)
\* A plausible slip: the session is removed with its timers still running.
CleanupSessionKeepsTimers(sid, keys, sess, cl) ==
  IF sid \notin keys \/ sess.id # sid
  THEN [keys |-> keys, sess |-> sess, cl |-> cl]
  ELSE [keys |-> keys \ {sid}, sess |-> sess,
        cl |-> IF DisconnectThrows(cl) THEN cl ELSE Disconnect(cl)]

\* A plausible slip: the session is left in the table.
CleanupSessionKeepsEntry(sid, keys, sess, cl) ==
  IF sid \notin keys \/ sess.id # sid
  THEN [keys |-> keys, sess |-> sess, cl |-> cl]
  ELSE [keys |-> keys,
        sess |-> [sess EXCEPT !.chunkInterval = FALSE,
                              !.participantInterval = FALSE],
        cl |-> IF DisconnectThrows(cl) THEN cl ELSE Disconnect(cl)]

\* A plausible slip: the table is cleared instead of one id being deleted.
CleanupSessionClearsTable(sid, keys, sess, cl) ==
  IF sid \notin keys \/ sess.id # sid
  THEN [keys |-> keys, sess |-> sess, cl |-> cl]
  ELSE [keys |-> {},
        sess |-> [sess EXCEPT !.chunkInterval = FALSE,
                              !.participantInterval = FALSE],
        cl |-> IF DisconnectThrows(cl) THEN cl ELSE Disconnect(cl)]

\* cleanupSession(sessionId) on a manager whose table has `keys`, whose
\* session object is `sess` and whose client is `cl`.
CleanupSession(sid, keys, sess, cl) ==
  IF sid \notin keys \/ sess.id # sid
  THEN [keys |-> keys, sess |-> sess, cl |-> cl]
  ELSE [keys |-> keys \ {sid},
        sess |-> [sess EXCEPT !.chunkInterval = FALSE,
                              !.participantInterval = FALSE],
        cl |-> IF DisconnectThrows(cl) THEN cl ELSE Disconnect(cl)]

\* Lines 86-104 of startRecording: the session object as it is inserted.
NewSession(r, t) ==
  [id |-> Sid(r), meetingCode |-> code[r], startTime |-> t, endTime |-> -1,
   chunks |-> <<>>, status |-> "recording", totalSize |-> 0,
   chunkInterval |-> TRUE, participantInterval |-> TRUE]

(***************************************************************************)
(* GoogleMeetRESTService.isValidMeetingCode (src/unnamed/part_000:300-303): *)
(* /^[a-z0-9]{3}-[a-z0-9]{4}-[a-z0-9]{3}$/i.test(meetingCode).             *)
(***************************************************************************)
LowerSeq ==
  <<"a", "b", "c", "d", "e", "f", "g", "h", "i", "j", "k", "l", "m", "n",
    "o", "p", "q", "r", "s", "t", "u", "v", "w", "x", "y", "z">>
UpperSeq ==
  <<"A", "B", "C", "D", "E", "F", "G", "H", "I", "J", "K", "L", "M", "N",
    "O", "P", "Q", "R", "S", "T", "U", "V", "W", "X", "Y", "Z">>
Lower == {LowerSeq[i] : i \in 1..26}
Upper == {UpperSeq[i] : i \in 1..26}
Digit == {"0", "1", "2", "3", "4", "5", "6", "7", "8", "9"}

ToUpperCase == [c \in Lower |-> UpperSeq[CHOOSE i \in 1..26 : LowerSeq[i] = c]]

\* Canonicalize of a character under the i flag: its upper-case form.
Canonicalize(ch) == IF ch \in Lower THEN ToUpperCase[ch] ELSE ch

\* The characters of [a-z0-9], canonicalized.
AlnumCanonical == {Canonicalize(c) : c \in Lower \cup Digit}

\* The character class [a-z0-9] with the i flag (a character is in the class
\* when its canonical form is that of a member), and the literal hyphen.
InClass(cls, ch) ==
  IF cls = "alnum" THEN Canonicalize(ch) \in AlnumCanonical ELSE ch = "-"

\* The pattern between ^ and $: each term is a class and its repeat count.
MeetingCodePattern ==
  <<<<"alnum", 3>>, <<"hyphen", 1>>, <<"alnum", 4>>, <<"hyphen", 1>>,
    <<"alnum", 3>>>>

\* The terms of pat match str from position i up to its end.
RECURSIVE MatchHere(_, _, _)
MatchHere(pat, str, i) ==
  IF pat = <<>> THEN i = Len(str) + 1
  ELSE IF Head(pat)[2] = 0 THEN MatchHere(Tail(pat), str, i)
  ELSE /\ i <= Len(str)
       /\ InClass(Head(pat)[1], str[i])
       /\ MatchHere(<<<<Head(pat)[1], Head(pat)[2] - 1>>>> \o Tail(pat),
                    str, i + 1)

IsValidMeetingCode(str) == MatchHere(MeetingCodePattern, str, 1)

(***************************************************************************)
(* Initial state: the process has started, no request has arrived.         *)
(***************************************************************************)
Init ==
  /\ pc = [r \in Reqs |-> "idle"]
  /\ code = [r \in Reqs |-> NoCode]
  /\ resp = [r \in Reqs |-> 0]
  /\ activeRecordings = [c \in RouteCodes |-> None]
  /\ sessionData = [r \in Reqs |-> NoSessionData]
  /\ cleanupTimer = [r \in Reqs |-> FALSE]
  /\ stopRecordings = {}
  /\ stopResp = [c \in Codes |-> 0]
  /\ elapsed = [r \in Reqs |-> 0]
  /\ activeSessions = [r \in Reqs |-> {}]
  /\ session = [r \in Reqs |-> NoSession]
  /\ client = [r \in Reqs |-> NewClient]
  /\ hist = [r \in Reqs |-> NoHist]
  /\ now = 0
  /\ caller = [k \in Callers |-> NoCaller]
  /\ tick = [r \in Reqs |-> FALSE]
  /\ turn = None

(***************************************************************************)
(* The start route, POST (src/app/api/start/route.ts:16-152), and the      *)
(* manager's startRecording that it awaits (recording-manager.ts:45-114).  *)
(***************************************************************************)
\* What a start request leaves alone once it is inside startRecording.
StartFrame ==
  UNCHANGED <<code, activeRecordings, stopRecordings, stopResp, now, caller,
              tick, turn>>

\* startRecording's catch (lines 109-113) with the client as `cl`, followed by
\* the route's catch (lines 125-143).
\* h is what is known of the request when the error is raised.
FailStartWith(r, stage, cl, h) ==
  LET cu == CleanupSession(Sid(r), activeSessions[r], session[r], cl)
  IN /\ activeSessions' = [activeSessions EXCEPT ![r] = cu.keys]
     /\ session' = [session EXCEPT ![r] = cu.sess]
     /\ client' = [client EXCEPT ![r] = cu.cl]
     /\ sessionData' = [sessionData EXCEPT ![r].status = "error"]
     /\ cleanupTimer' = [cleanupTimer EXCEPT ![r] = TRUE]
     /\ resp' = [resp EXCEPT ![r] = 500]
     /\ pc' = [pc EXCEPT ![r] = "done"]
     /\ hist' = [hist EXCEPT
                   ![r] = [h EXCEPT !.stage = stage,
                                    !.liveAtEnd = (CombinedTracks(cl) # {})]]

FailStart(r, stage, cl) == FailStartWith(r, stage, cl, hist[r])

\* startRecording lines 86-107 with the client as `cl`, followed by the
\* route's lines 108-123.
SucceedStart(r, cl) ==
  /\ activeSessions' = [activeSessions EXCEPT ![r] = @ \cup {Sid(r)}]
  /\ session' = [session EXCEPT ![r] = NewSession(r, now)]
  /\ client' = [client EXCEPT ![r] = cl]
  /\ sessionData' = [sessionData EXCEPT
                       ![r] = [status |-> "recording", sessionId |-> Sid(r)]]
  /\ cleanupTimer' = cleanupTimer
  /\ resp' = [resp EXCEPT ![r] = 200]
  /\ pc' = [pc EXCEPT ![r] = "done"]
  /\ hist' = [hist EXCEPT ![r].stage = "ok", ![r].connAtStart = TRUE,
                          ![r].liveAtQuery = (@ \/ pc[r] = "m_settle"),
                          ![r].liveAtEnd = TRUE]
  /\ elapsed' = elapsed

\* A plausible slip: only a record that is already recording counts.
HasDuplicateRecording(c) ==
  /\ c \in DOMAIN activeRecordings
  /\ activeRecordings[c] # None
  /\ sessionData[activeRecordings[c]].status = "recording"

\* Lines 38-44: activeRecordings.has(meetingCode).  The keys the Map can
\* hold are those of RouteCodes; any other string is not in it.
HasDuplicate(c) == c \in DOMAIN activeRecordings /\ activeRecordings[c] # None

\* A plausible slip: the format is looked at after the duplicate check.
RejectedAtOnceIfMissing(c) == c = NoCode

\* Lines 23-36: the code is missing or its format is not valid.
RejectedAtOnce(c) == c = NoCode \/ ~IsValidMeetingCode(c)

\* Lines 16-47: the body is read, the code is checked, the duplicate check
\* is made, and the request suspends in getAccessToken.
StartReceive(r, c) ==
  /\ turn = None
  /\ pc[r] = "idle"
  /\ code' = [code EXCEPT ![r] = c]
  /\ IF RejectedAtOnce(c)
     THEN /\ resp' = [resp EXCEPT ![r] = 400]
          /\ pc' = [pc EXCEPT ![r] = "done"]
          /\ hist' = [hist EXCEPT ![r].stage = "invalid"]
     ELSE IF HasDuplicate(c)
     THEN /\ resp' = [resp EXCEPT ![r] = 409]
          /\ pc' = [pc EXCEPT ![r] = "done"]
          /\ hist' = [hist EXCEPT ![r].stage = "duplicate"]
     ELSE /\ resp' = resp
          /\ pc' = [pc EXCEPT ![r] = "token"]
          /\ hist' = hist
  /\ UNCHANGED <<activeRecordings, sessionData, cleanupTimer, stopRecordings,
                 stopResp, elapsed, activeSessions, session, client, now,
                 caller, tick, turn>>

\* Lines 47-68: the token arrives (or null), the project number is read, and
\* the request suspends in getSpaceIdFromMeetingCode.
StartToken(r, outcome) ==
  /\ turn = None
  /\ pc[r] = "token"
  /\ IF outcome = "ok"
     THEN /\ pc' = [pc EXCEPT ![r] = "space"]
          /\ UNCHANGED <<resp, hist>>
     ELSE /\ pc' = [pc EXCEPT ![r] = "done"]
          /\ resp' = [resp EXCEPT ![r] = IF outcome = "notoken" THEN 401 ELSE 500]
          /\ hist' = [hist EXCEPT ![r].stage = outcome]
  /\ UNCHANGED <<code, activeRecordings, sessionData, cleanupTimer,
                 stopRecordings, stopResp, elapsed, activeSessions, session,
                 client, now, caller, tick, turn>>

\* Lines 68-98: the space id arrives, the manager is built, the record is
\* inserted with status starting and startRecording runs to its first await;
\* a failed lookup goes to the outer catch (lines 145-151).
StartSpace(r, ok) ==
  /\ turn = None
  /\ pc[r] = "space"
  /\ IF ok
     THEN /\ activeRecordings' = [activeRecordings EXCEPT ![code[r]] = r]
          /\ sessionData' = [sessionData EXCEPT
                               ![r] = [status |-> "starting", sessionId |-> ""]]
          /\ pc' = [pc EXCEPT ![r] = "m_space"]
          /\ UNCHANGED <<resp, hist>>
     ELSE /\ pc' = [pc EXCEPT ![r] = "done"]
          /\ resp' = [resp EXCEPT ![r] = 500]
          /\ hist' = [hist EXCEPT ![r].stage = "lookup"]
          /\ UNCHANGED <<activeRecordings, sessionData>>
  /\ UNCHANGED <<code, cleanupTimer, stopRecordings, stopResp, elapsed,
                 activeSessions, session, client, now, caller, tick, turn>>

\* startRecording lines 52-59: the manager's own lookup settles; on success
\* waitForActiveConference starts its clock and issues the first poll.
MgrSpace(r, ok) ==
  /\ turn = None
  /\ pc[r] = "m_space"
  /\ IF ok
     THEN /\ pc' = [pc EXCEPT ![r] = "m_poll"]
          /\ elapsed' = [elapsed EXCEPT ![r] = 0]
          /\ hist' = [hist EXCEPT ![r].polls = 1]
          /\ UNCHANGED <<activeSessions, session, client, sessionData,
                         cleanupTimer, resp>>
     ELSE FailStart(r, "lookup", client[r]) /\ elapsed' = elapsed
  /\ StartFrame

\* The catch of the loop (part_000:277-279) after getActiveConference
\* (lines 123-132) settled with res: null for not-found, any other failure
\* raised.
Polled(h, res) ==
  [h EXCEPT !.erred = (res = "error"), !.allErred = @ /\ res = "error"]

\* A plausible slip: the client is built before the conference is known.
MgrPollBuildsClient(r, res, late) ==
  /\ turn = None
  /\ pc[r] = "m_poll"
  /\ LET e == elapsed[r] + late + ConferenceIntervalMs
     IN IF res = "active"
        THEN /\ pc' = [pc EXCEPT ![r] = "m_init"]
             /\ elapsed' = [elapsed EXCEPT ![r] = 0]
             /\ client' = [client EXCEPT ![r] = [NewClient EXCEPT !.exists = TRUE]]
             /\ hist' = [hist EXCEPT ![r].polls = 0, ![r].conference = TRUE,
                                     ![r].erred = FALSE, ![r].allErred = TRUE]
             /\ UNCHANGED <<activeSessions, session, sessionData, cleanupTimer,
                            resp>>
        ELSE IF e < ConferenceTimeoutMs
        THEN /\ elapsed' = [elapsed EXCEPT ![r] = e]
             /\ client' = [client EXCEPT ![r] = [NewClient EXCEPT !.exists = TRUE]]
             /\ hist' = [hist EXCEPT ![r] = [Polled(@, res) EXCEPT !.polls = @ + 1]]
             /\ UNCHANGED <<pc, activeSessions, session, sessionData,
                            cleanupTimer, resp>>
        ELSE /\ FailStartWith(r, "noconference", client[r],
                               Polled(hist[r], res))
             /\ elapsed' = [elapsed EXCEPT ![r] = e]
  /\ StartFrame

\* A plausible slip: the loop goes round once more when the time is up.
MgrPollOnceMore(r, res, late) ==
  /\ turn = None
  /\ pc[r] = "m_poll"
  /\ LET e == elapsed[r] + late + ConferenceIntervalMs
     IN IF res = "active"
        THEN /\ pc' = [pc EXCEPT ![r] = "m_init"]
             /\ elapsed' = [elapsed EXCEPT ![r] = 0]
             /\ client' = [client EXCEPT ![r] = [NewClient EXCEPT !.exists = TRUE]]
             /\ hist' = [hist EXCEPT ![r].polls = 0, ![r].conference = TRUE,
                                     ![r].erred = FALSE, ![r].allErred = TRUE]
             /\ UNCHANGED <<activeSessions, session, sessionData, cleanupTimer,
                            resp>>
        ELSE IF e <= ConferenceTimeoutMs
        THEN /\ elapsed' = [elapsed EXCEPT ![r] = e]
             /\ hist' = [hist EXCEPT ![r] = [Polled(@, res) EXCEPT !.polls = @ + 1]]
             /\ UNCHANGED <<pc, activeSessions, session, client, sessionData,
                            cleanupTimer, resp>>
        ELSE /\ FailStartWith(r, "noconference", client[r],
                               Polled(hist[r], res))
             /\ elapsed' = [elapsed EXCEPT ![r] = e]
  /\ StartFrame

\* A plausible slip: only not-found is taken for "no conference yet".
MgrPollAbortsOnError(r, res, late) ==
  /\ turn = None
  /\ pc[r] = "m_poll"
  /\ LET e == elapsed[r] + late + ConferenceIntervalMs
     IN IF res = "active"
        THEN /\ pc' = [pc EXCEPT ![r] = "m_init"]
             /\ elapsed' = [elapsed EXCEPT ![r] = 0]
             /\ client' = [client EXCEPT ![r] = [NewClient EXCEPT !.exists = TRUE]]
             /\ hist' = [hist EXCEPT ![r].polls = 0, ![r].conference = TRUE,
                                     ![r].erred = FALSE, ![r].allErred = TRUE]
             /\ UNCHANGED <<activeSessions, session, sessionData, cleanupTimer,
                            resp>>
        ELSE IF res = "error"
        THEN /\ FailStartWith(r, "lookup", client[r], Polled(hist[r], res))
             /\ elapsed' = elapsed
        ELSE IF e < ConferenceTimeoutMs
        THEN /\ elapsed' = [elapsed EXCEPT ![r] = e]
             /\ hist' = [hist EXCEPT ![r] = [Polled(@, res) EXCEPT !.polls = @ + 1]]
             /\ UNCHANGED <<pc, activeSessions, session, client, sessionData,
                            cleanupTimer, resp>>
        ELSE /\ FailStartWith(r, "noconference", client[r],
                               Polled(hist[r], res))
             /\ elapsed' = [elapsed EXCEPT ![r] = e]
  /\ StartFrame

\* waitForActiveConference (part_000:269-286): one poll settles, `late` ms
\* after it was made (the time the request took, and the lateness of the
\* timer that follows).  A conference ends the wait and constructs the client
\* (recording-manager.ts:65-72); otherwise the loop sleeps intervalMs and
\* polls again while the elapsed time is below timeoutMs.
MgrPoll(r, res, late) ==
  /\ turn = None
  /\ pc[r] = "m_poll"
  /\ LET e == elapsed[r] + late + ConferenceIntervalMs
     IN IF res = "active"
        THEN /\ pc' = [pc EXCEPT ![r] = "m_init"]
             /\ elapsed' = [elapsed EXCEPT ![r] = 0]
             /\ client' = [client EXCEPT ![r] = [NewClient EXCEPT !.exists = TRUE]]
             /\ hist' = [hist EXCEPT ![r].polls = 0, ![r].conference = TRUE,
                                     ![r].erred = FALSE, ![r].allErred = TRUE]
             /\ UNCHANGED <<activeSessions, session, sessionData, cleanupTimer,
                            resp>>
        ELSE IF e < ConferenceTimeoutMs
        THEN /\ elapsed' = [elapsed EXCEPT ![r] = e]
             /\ hist' = [hist EXCEPT ![r] = [Polled(@, res) EXCEPT !.polls = @ + 1]]
             /\ UNCHANGED <<pc, activeSessions, session, client, sessionData,
                            cleanupTimer, resp>>
        ELSE /\ FailStartWith(r, "noconference", client[r],
                               Polled(hist[r], res))
             /\ elapsed' = [elapsed EXCEPT ![r] = e]
  /\ StartFrame

(***************************************************************************)
(* Session descriptions.  A description is the sequence of its pieces of   *)
(* text; "CR" and "LF" are the two characters that end a line.             *)
(***************************************************************************)
MediaKinds == <<"audio", "video", "application", "text">>

\* The DTLS roles an offer of createOffer may carry in a media section.
OfferedSetups == {"actpass", "active", "passive"}

MediaSection(kind, setup) ==
  <<"m=" \o kind, "CR", "LF", "a=setup:", setup, "CR", "LF",
    "a=mid:" \o kind, "CR", "LF">>

RECURSIVE Sections(_, _)
Sections(setups, i) ==
  IF i > Len(setups) THEN <<>>
  ELSE MediaSection(MediaKinds[i], setups[i]) \o Sections(setups, i + 1)

SessionDescription(setups) == <<"v=0", "CR", "LF">> \o Sections(setups, 1)

\* What createOffer may resolve with: one to MaxMedia media sections, every
\* line ended by CR LF.
Offers ==
  {SessionDescription(f) :
     f \in UNION {[1..n -> OfferedSetups] : n \in 1..MaxMedia}}

\* The values of the a=setup attributes of a description.
SetupValues(sdp) ==
  {sdp[i + 1] : i \in {k \in 1..(Len(sdp) - 1) : sdp[k] = "a=setup:"}}

\* `.` of a regular expression matches anything but a line terminator: the
\* index of the first line terminator from i on, or one past the end.
RECURSIVE LineEnd(_, _)
LineEnd(sdp, i) ==
  IF i > Len(sdp) \/ sdp[i] \in {"CR", "LF"} THEN i ELSE LineEnd(sdp, i + 1)

\* The length of the match of /a=setup:.*\r\n/ that begins at i, or 0.
MatchSetupLine(sdp, i) ==
  IF sdp[i] # "a=setup:" THEN 0
  ELSE LET j == LineEnd(sdp, i + 1)
       IN IF j + 1 <= Len(sdp) /\ sdp[j] = "CR" /\ sdp[j + 1] = "LF"
          THEN j + 2 - i
          ELSE 0

\* String.prototype.replace with the g flag, from index i on.
RECURSIVE ReplaceAll(_, _)
ReplaceAll(sdp, i) ==
  IF i > Len(sdp) THEN <<>>
  ELSE LET n == MatchSetupLine(sdp, i)
       IN IF n > 0
          THEN <<"a=setup:", "active", "CR", "LF">> \o ReplaceAll(sdp, i + n)
          ELSE <<sdp[i]>> \o ReplaceAll(sdp, i + 1)

\* String.prototype.replace without the g flag, from index i on.
RECURSIVE ReplaceFirst(_, _)
ReplaceFirst(sdp, i) ==
  IF i > Len(sdp) THEN <<>>
  ELSE LET n == MatchSetupLine(sdp, i)
       IN IF n > 0
          THEN <<"a=setup:", "active", "CR", "LF">>
                 \o SubSeq(sdp, i + n, Len(sdp))
          ELSE <<sdp[i]>> \o ReplaceFirst(sdp, i + 1)

\* A plausible slip: the regular expression lacks the g flag.
ModifyFirstSetupOnly(sdp) == ReplaceFirst(sdp, 1)

\* modifySDPForMeetAPI (oauth-service.ts:672-686).
ModifySDPForMeetAPI(sdp) == ReplaceAll(sdp, 1)

\* initializeConnection (oauth-service.ts:292-353), then connectToMeeting up to
\* its first await, that of createOffer (line 642).
MgrInit(r, ok) ==
  /\ turn = None
  /\ pc[r] = "m_init"
  /\ IF ok
     THEN /\ pc' = [pc EXCEPT ![r] = "m_offer"]
          /\ client' = [client EXCEPT ![r].pcOpen = TRUE,
                                      ![r].dc = "connecting",
                                      ![r].transport = "new"]
          /\ UNCHANGED <<activeSessions, session, sessionData, cleanupTimer,
                         resp, hist, elapsed>>
     ELSE FailStart(r, "init", client[r]) /\ elapsed' = elapsed
  /\ StartFrame

\* connectToMeeting lines 642-654: createOffer settles; the offer is modified
\* and handed to setLocalDescription.
ConnectOffer(r, ok, offer) ==
  /\ turn = None
  /\ pc[r] = "m_offer"
  /\ IF ok
     THEN /\ pc' = [pc EXCEPT ![r] = "m_local"]
          /\ hist' = [hist EXCEPT
                        ![r].offer = SetupValues(ModifySDPForMeetAPI(offer))]
          /\ UNCHANGED <<activeSessions, session, client, sessionData,
                         cleanupTimer, resp>>
     ELSE FailStart(r, "connect", client[r])
  /\ elapsed' = elapsed
  /\ StartFrame

\* Lines 654-658 and 692-706: setLocalDescription settles; the modified offer
\* is posted to the Meet API.
ConnectLocal(r, ok) ==
  /\ turn = None
  /\ pc[r] = "m_local"
  /\ IF ok
     THEN /\ pc' = [pc EXCEPT ![r] = "m_exchange"]
          /\ client' = [client EXCEPT ![r].local = TRUE,
                                      ![r].localSetups = hist[r].offer]
          /\ hist' = [hist EXCEPT ![r].submitted = TRUE,
                                  ![r].submittedSetups = hist[r].offer]
          /\ UNCHANGED <<activeSessions, session, sessionData, cleanupTimer,
                         resp>>
     ELSE FailStart(r, "connect", client[r])
  /\ elapsed' = elapsed
  /\ StartFrame

\* Lines 708-722 and 661: the exchange settles: with an answer, which is
\* handed to setRemoteDescription, with a refusal (response.ok is false), or
\* with an error of the request.
ConnectExchange(r, res) ==
  /\ turn = None
  /\ pc[r] = "m_exchange"
  /\ IF res = "answer"
     THEN /\ pc' = [pc EXCEPT ![r] = "m_connect"]
          /\ hist' = [hist EXCEPT ![r].answered = TRUE]
          /\ UNCHANGED <<activeSessions, session, client, sessionData,
                         cleanupTimer, resp>>
     ELSE FailStart(r, "connect", client[r])
  /\ elapsed' = elapsed
  /\ StartFrame

\* connectToMeeting lines 661-669: setRemoteDescription settles; on success
\* the client is marked connected and waitForMediaStreams starts its clock.
MgrConnect(r, ok) ==
  /\ turn = None
  /\ pc[r] = "m_connect"
  /\ IF ok
     THEN /\ pc' = [pc EXCEPT ![r] = "m_streams"]
          /\ client' = [client EXCEPT ![r].remote = TRUE,
                                      ![r].isConnected = TRUE]
          /\ elapsed' = [elapsed EXCEPT ![r] = 0]
          /\ UNCHANGED <<activeSessions, session, sessionData, cleanupTimer,
                         resp, hist>>
     ELSE FailStart(r, "connect", client[r]) /\ elapsed' = elapsed
  /\ StartFrame

\* A plausible slip: when the time is up the wait returns instead of throwing.
MgrStreamsGivesUp(r) ==
  /\ turn = None
  /\ pc[r] = "m_streams"
  /\ IF elapsed[r] < StreamsTimeoutMs
     THEN /\ IF client[r].transport = "connected"
             THEN /\ pc' = [pc EXCEPT ![r] = "m_settle"]
                  /\ elapsed' = [elapsed EXCEPT ![r] = 0]
                  /\ hist' = [hist EXCEPT ![r].sawConnected = TRUE]
             ELSE /\ pc' = pc
                  /\ elapsed' = [elapsed EXCEPT
                                   ![r] = @ + StreamsIntervalMs + TimerLagMs]
                  /\ hist' = hist
          /\ UNCHANGED <<activeSessions, session, client, sessionData,
                         cleanupTimer, resp>>
     ELSE /\ pc' = [pc EXCEPT ![r] = "m_settle"]
          /\ elapsed' = [elapsed EXCEPT ![r] = 0]
          /\ UNCHANGED <<activeSessions, session, client, sessionData,
                         cleanupTimer, resp, hist>>
  /\ StartFrame

\* waitForMediaStreams (recording-manager.ts:155-169): one turn of the loop.
\* The state 'connected' starts the 2 s settle delay; any other state is
\* followed by a sleep of 500 ms that ends TimerLagMs late.
MgrStreams(r) ==
  /\ turn = None
  /\ pc[r] = "m_streams"
  /\ IF elapsed[r] < StreamsTimeoutMs
     THEN /\ IF client[r].transport = "connected"
             THEN /\ pc' = [pc EXCEPT ![r] = "m_settle"]
                  /\ elapsed' = [elapsed EXCEPT ![r] = 0]
                  /\ hist' = [hist EXCEPT ![r].sawConnected = TRUE]
             ELSE /\ pc' = pc
                  /\ elapsed' = [elapsed EXCEPT
                                   ![r] = @ + StreamsIntervalMs + TimerLagMs]
                  /\ hist' = hist
          /\ UNCHANGED <<activeSessions, session, client, sessionData,
                         cleanupTimer, resp>>
     ELSE FailStart(r, "streams_timeout", client[r]) /\ elapsed' = elapsed
  /\ StartFrame

\* The 2 s settle delay has passed; the client's startRecording
\* (oauth-service.ts:750-773) runs to its grace wait or to the end.
MgrSettle(r) ==
  /\ turn = None
  /\ pc[r] = "m_settle"
  /\ LET cl == client[r]
         c1 == UpdateRecordingStream(cl)
     IN IF ~cl.isConnected
        THEN FailStart(r, "not_connected", cl) /\ elapsed' = elapsed
        ELSE IF cl.isRecording
        THEN FailStart(r, "already_recording", cl) /\ elapsed' = elapsed
        ELSE IF NoRecordingStream(c1)
        THEN /\ pc' = [pc EXCEPT ![r] = "m_grace"]
             /\ client' = [client EXCEPT ![r] = c1]
             /\ hist' = [hist EXCEPT ![r].connAtStart = TRUE,
                                     ![r].liveAtQuery = (CombinedTracks(cl) # {})]
             /\ UNCHANGED <<activeSessions, session, sessionData,
                            cleanupTimer, resp, elapsed>>
        ELSE SucceedStart(r, BeginCapture(c1, now))
  /\ StartFrame

\* The 2 s grace wait has passed (oauth-service.ts:767-785).
MgrGrace(r) ==
  /\ turn = None
  /\ pc[r] = "m_grace"
  /\ LET cl == client[r]
         c1 == UpdateRecordingStream(cl)
     IN IF NoRecordingStream(c1)
        THEN FailStart(r, "no_media", c1) /\ elapsed' = elapsed
        ELSE SucceedStart(r, BeginCapture(c1, now))
  /\ StartFrame

\* The route's 60 s timer (lines 132-134) fires.
CleanupTimerFire(r) ==
  /\ turn = None
  /\ cleanupTimer[r]
  /\ cleanupTimer' = [cleanupTimer EXCEPT ![r] = FALSE]
  /\ activeRecordings' = [activeRecordings EXCEPT ![code[r]] = None]
  /\ UNCHANGED <<pc, code, resp, sessionData, stopRecordings, stopResp,
                 elapsed, activeSessions, session, client, hist, now, caller,
                 tick, turn>>

(***************************************************************************)
(* The stop route, POST (src/unnamed/part_001:22-142).  It looks the code  *)
(* up in the Map that its own module declares (lines 13-20); nothing in    *)
(* the module inserts into that Map.                                       *)
(***************************************************************************)
StopPOST(c) ==
  /\ turn = None
  /\ stopResp' = [stopResp EXCEPT ![c] = IF c \notin stopRecordings
                                         THEN 404 ELSE 400]
  /\ UNCHANGED <<pc, code, resp, activeRecordings, sessionData, cleanupTimer,
                 stopRecordings, elapsed, activeSessions, session, client,
                 hist, now, caller, tick, turn>>

(***************************************************************************)
(* Events of the media transport (oauth-service.ts:355-427).               *)
(***************************************************************************)
ClientFrame ==
  UNCHANGED <<pc, code, resp, activeRecordings, sessionData, cleanupTimer,
              stopRecordings, stopResp, elapsed, activeSessions, session,
              hist, now, caller, tick, turn>>

TransportNext(st) ==
  CASE st = "new" -> {"connecting"}
    [] st = "connecting" -> {"connected", "failed"}
    [] st = "connected" -> {"disconnected", "failed"}
    [] st = "disconnected" -> {"connected", "failed"}
    [] OTHER -> {}

\* Some flow still reads the client of r: its start request is in progress,
\* or its session is in the manager's table.  The events of a client that a
\* failed start left behind are not followed.
Observed(r) == pc[r] # "done" \/ Sid(r) \in activeSessions[r]

\* The remote description has been applied (connectToMeeting line 661).
Negotiated(r) ==
  /\ client[r].pcOpen
  /\ client[r].remote
  /\ pc[r] \notin {"m_init", "m_offer", "m_local", "m_exchange", "m_connect"}
  /\ Observed(r)

TransportChange(r, st) ==
  /\ turn = None
  /\ Negotiated(r)
  /\ st \in TransportNext(client[r].transport)
  /\ client[r].oldPending < MaxRestarts
  /\ client' = [client EXCEPT ![r] = OnConnectionStateChange(@, st)]
  /\ ClientFrame

\* ontrack.
TrackArrived(r, t) ==
  /\ turn = None
  /\ Negotiated(r)
  /\ t \notin client[r].delivered
  /\ client' = [client EXCEPT ![r] = HandleIncomingTrack(@, t)]
  /\ ClientFrame

\* A delivered track ends: its readyState becomes ended and onended runs.
TrackEnded(r, t) ==
  /\ turn = None
  /\ Negotiated(r)
  /\ t \in client[r].live
  /\ client' = [client EXCEPT
       ![r] = HandleTrackEnded([@ EXCEPT !.live = @ \ {t}],
                               TrackStream(t), TrackKind(t))]
  /\ ClientFrame

\* The data channel opens (onopen sends client_ready).
DataChannelOpen(r) ==
  /\ turn = None
  /\ Negotiated(r)
  /\ client[r].transport = "connected"
  /\ client[r].dc = "connecting"
  /\ client' = [client EXCEPT ![r].dc = "open"]
  /\ ClientFrame

(***************************************************************************)
(* The program from its start.  The actions of a recording session (timer  *)
(* ticks, recorder events, the stop flow) are part of NextRec below.       *)
(***************************************************************************)
Next ==
  \/ \E r \in Reqs, c \in RouteCodes : StartReceive(r, c)
  \/ \E r \in Reqs, o \in {"ok", "notoken", "noproject"} : StartToken(r, o)
  \/ \E r \in Reqs, ok \in BOOLEAN : StartSpace(r, ok)
  \/ \E r \in Reqs, ok \in BOOLEAN : MgrSpace(r, ok)
  \/ \E r \in Reqs, res \in {"active", "none", "error"}, late \in {0, MaxPollMs} :
       MgrPoll(r, res, late)
  \/ \E r \in Reqs, ok \in BOOLEAN : MgrInit(r, ok)
  \/ \E r \in Reqs, ok \in BOOLEAN, offer \in Offers : ConnectOffer(r, ok, offer)
  \/ \E r \in Reqs, ok \in BOOLEAN : ConnectLocal(r, ok)
  \/ \E r \in Reqs, res \in {"answer", "refused", "error"} :
       ConnectExchange(r, res)
  \/ \E r \in Reqs, ok \in BOOLEAN : MgrConnect(r, ok)
  \/ \E r \in Reqs : MgrStreams(r)
  \/ \E r \in Reqs : MgrSettle(r)
  \/ \E r \in Reqs : MgrGrace(r)
  \/ \E r \in Reqs : CleanupTimerFire(r)
  \/ \E r \in Reqs, st \in {"connecting", "connected", "disconnected", "failed"} :
       TransportChange(r, st)
  \/ \E r \in Reqs, t \in StartTracks : TrackArrived(r, t)
  \/ \E r \in Reqs, t \in StartTracks : TrackEnded(r, t)
  \/ \E r \in Reqs : DataChannelOpen(r)

Spec == Init /\ [][Next]_vars

(***************************************************************************)
(* A recording session: the recorder's events, the two interval timers and *)
(* the manager's stopRecording (recording-manager.ts:116-153).             *)
(***************************************************************************)
SessionFrame ==
  UNCHANGED <<pc, code, resp, activeRecordings, sessionData, cleanupTimer,
              stopRecordings, stopResp, elapsed, hist, now>>

\* A chunk the recorder hands to ondataavailable (lines 802-807 of the client).
Delivered(chunks, size) == IF size > 0 THEN Append(chunks, size) ELSE chunks

\* ondataavailable of the running recorder (one buffer per second).
RecorderData(r, size) ==
  /\ turn = None
  /\ client[r].recorder = "recording"
  /\ Len(client[r].combinedChunks) < MaxChunks
  /\ client' = [client EXCEPT ![r].combinedChunks = Delivered(@, size)]
  /\ SessionFrame
  /\ UNCHANGED <<activeSessions, session, caller, tick, turn>>

\* The last events of a recorder that updateRecordingStream or disconnect
\* stopped, or that failed: its last buffer, then the onstop handler that
\* startMediaRecorder installed (lines 814-817).
OldRecorderStopped(r, size) ==
  /\ turn = None
  /\ client[r].oldPending > 0
  /\ size = 0 \/ Len(client[r].combinedChunks) < MaxChunks
  /\ client' = [client EXCEPT ![r].combinedChunks = Delivered(@, size),
                              ![r].endTime = now,
                              ![r].oldPending = @ - 1]
  /\ SessionFrame
  /\ UNCHANGED <<activeSessions, session, caller, tick, turn>>

\* onerror of the running recorder (lines 809-812).
RecorderError(r) ==
  /\ turn = None
  /\ client[r].recorder = "recording"
  /\ client[r].oldPending < MaxRestarts
  /\ client' = [client EXCEPT ![r].recorder = "inactive",
                              ![r].isRecording = FALSE,
                              ![r].oldPending = @ + 1]
  /\ SessionFrame
  /\ UNCHANGED <<activeSessions, session, caller, tick, turn>>

\* A plausible slip: a tick only looks whether the session is in the table.
TickIdleIfRemoved(keys, sess, sid) == sid \notin keys \/ sess.id # sid

\* Lines 177-178 and 207-208: the tick finds no session under its id, or one
\* whose status is not recording.
TickIdle(keys, sess, sid) ==
  sid \notin keys \/ sess.id # sid \/ sess.status # "recording"

\* The chunk-collection timer fires (recording-manager.ts:176-195, with
\* collectCurrentChunk, lines 226-246, which settles at once).
ChunkTick(r) ==
  /\ turn = None
  /\ session[r].chunkInterval
  /\ IF TickIdle(activeSessions[r], session[r], Sid(r))
     THEN session' = [session EXCEPT ![r].chunkInterval = FALSE]
     ELSE /\ Len(session[r].chunks) < MaxTicks
          /\ session' = [session EXCEPT ![r].chunks = Append(@, 0),
                                        ![r].totalSize = @ + 0]
  /\ SessionFrame
  /\ UNCHANGED <<activeSessions, client, caller, tick, turn>>

\* The participant timer fires (lines 206-220) and suspends in
\* getCurrentParticipants, which awaits a directory lookup.
ParticipantTick(r) ==
  /\ turn = None
  /\ session[r].participantInterval
  /\ ~tick[r]
  /\ IF TickIdle(activeSessions[r], session[r], Sid(r))
     THEN /\ session' = [session EXCEPT ![r].participantInterval = FALSE]
          /\ tick' = tick
     ELSE /\ session' = session
          /\ tick' = [tick EXCEPT ![r] = TRUE]
  /\ SessionFrame
  /\ UNCHANGED <<activeSessions, client, caller, turn>>

\* getCurrentParticipants settles (lines 248-260: always the empty list) and
\* the tick stores it.
ParticipantTickEnd(r) ==
  /\ turn = None
  /\ tick[r]
  /\ tick' = [tick EXCEPT ![r] = FALSE]
  /\ SessionFrame
  /\ UNCHANGED <<activeSessions, session, client, caller, turn>>

\* A plausible slip: only the recorder is looked at.
NoCaptureWithoutRecorder(cl) == cl.recorder = None

\* The client's stopRecording, lines 850-852: no recording is in progress.
NoCapture(cl) == ~cl.isRecording \/ cl.recorder = None

\* A plausible slip: any live session is taken for the one asked for.
FindAnySession(keys, sess, id) == keys # {}

\* Lines 117-121: activeSessions.get(sessionId) finds a session.
FindSession(keys, sess, id) == id \in keys /\ sess.id = id

\* A plausible slip: the catch leaves the status as it was.
StopFailedSilently(sess) == sess

\* Lines 148-152: the catch of stopRecording.
StopFailed(sess) == [sess EXCEPT !.status = "error"]

\* The session object that the table of manager r holds under id (the
\* objects are kept per request slot; an id names the slot it was made for).
SlotOf(r, id) ==
  IF \E x \in Reqs : Sid(x) = id THEN CHOOSE x \in Reqs : Sid(x) = id ELSE r

\* A plausible slip: forceStopAllRecordings lets the error of a stop escape.
SettledUncaught(c, result) ==
  IF c.force
  THEN IF result = "ok"
       THEN [c EXCEPT !.pc = "f_loop", !.todo = Tail(@),
                      !.tried = Append(@, <<c.id, result>>)]
       ELSE [c EXCEPT !.pc = "done", !.result = "raised",
                      !.tried = Append(@, <<c.id, result>>)]
  ELSE [c EXCEPT !.pc = "done", !.result = result]

\* stopRecording settles for caller record c: its own caller gets the result;
\* the loop of forceStopAllRecordings (lines 327-333) catches a rejection,
\* logs it and goes on to the next id.
Settled(c, result) ==
  IF c.force
  THEN [c EXCEPT !.pc = "f_loop", !.todo = Tail(@),
                 !.tried = Append(@, <<c.id, result>>)]
  ELSE [c EXCEPT !.pc = "done", !.result = result]

\* stopRecording(id) on manager r, lines 116-129, with the client's
\* stopRecording (oauth-service.ts:849-886) up to the recorder's stop().
StopRecordingBegin(k, r, id) ==
  LET x == SlotOf(r, id)
      cl == client[x]
      me == [caller[k] EXCEPT !.mgr = r, !.id = id, !.slot = x]
  IN IF ~FindSession(activeSessions[r], session[x], id)
     THEN /\ caller' = [caller EXCEPT ![k] = Settled(me, "not_found")]
          /\ UNCHANGED <<session, client>>
     ELSE IF NoCapture(cl)
     THEN /\ session' = [session EXCEPT ![x] = StopFailed(@)]
          /\ caller' = [caller EXCEPT ![k] = Settled(me, "error")]
          /\ client' = client
     ELSE IF cl.recorder = "inactive"
     THEN /\ session' = [session EXCEPT ![x] = StopFailed(@)]
          /\ caller' = [caller EXCEPT ![k] = Settled(me, "error")]
          /\ client' = [client EXCEPT ![x].stopWaiter = k]
     ELSE /\ session' = [session EXCEPT ![x].status = "stopping"]
          /\ caller' = [caller EXCEPT ![k] = [me EXCEPT !.pc = "waiting"]]
          /\ client' = [client EXCEPT ![x].stopWaiter = k,
                                      ![x].recorder = "inactive",
                                      ![x].stopPending = TRUE]

\* A caller calls stopRecording(id) on the manager of r.
StopCall(k, r, id) ==
  /\ turn = None
  /\ caller[k].pc = "idle"
  /\ StopRecordingBegin(k, r, id)
  /\ SessionFrame
  /\ UNCHANGED <<activeSessions, tick, turn>>

\* The stopped recorder's last buffer, then the onstop handler that the
\* latest stopRecording installed (lines 860-882): the blob is built and
\* that caller's promise is resolved (which resumes the caller if it still
\* waits for it; resolving a promise that was rejected does nothing).
RecorderStopped(r, size) ==
  /\ turn = None
  /\ client[r].stopPending
  /\ size = 0 \/ Len(client[r].combinedChunks) < MaxChunks
  /\ LET w == client[r].stopWaiter
         chunks == Delivered(client[r].combinedChunks, size)
     IN /\ client' = [client EXCEPT ![r].combinedChunks = chunks,
                                    ![r].stopPending = FALSE,
                                    ![r].isRecording = FALSE,
                                    ![r].endTime = now,
                                    ![r].log = Append(@, "finalized")]
        /\ IF caller[w].pc = "waiting" /\ caller[w].slot = r
           THEN /\ caller' = [caller EXCEPT ![w].pc = "disconnect",
                                            ![w].finalSize = Sum(chunks)]
                /\ turn' = w
           ELSE UNCHANGED <<caller, turn>>
  /\ SessionFrame
  /\ UNCHANGED <<activeSessions, session, tick>>

\* stopRecording line 132, run as the continuation of the resolved promise.
StopDisconnect(k) ==
  /\ turn = k
  /\ caller[k].pc = "disconnect"
  /\ LET r == caller[k].slot
     IN IF DisconnectThrows(client[r])
        THEN /\ session' = [session EXCEPT ![r] = StopFailed(@)]
             /\ caller' = [caller EXCEPT ![k] = Settled(@, "error")]
             /\ turn' = IF caller[k].force THEN k ELSE None
             /\ client' = client
        ELSE /\ client' = [client EXCEPT ![r] = Disconnect(@)]
             /\ caller' = [caller EXCEPT ![k].pc = "finish"]
             /\ UNCHANGED <<session, turn>>
  /\ SessionFrame
  /\ UNCHANGED <<activeSessions, tick>>

\* combineRecordingChunks (lines 262-279): null without chunks, otherwise a
\* blob of the session's chunks.
CombinedSize(sess, finalSize) ==
  IF Len(sess.chunks) = 0 THEN finalSize ELSE Sum(sess.chunks)

\* stopRecording lines 135-146.
StopFinish(k) ==
  /\ turn = k
  /\ caller[k].pc = "finish"
  /\ LET r == caller[k].slot
         sess == [session[r] EXCEPT !.endTime = now, !.status = "stopped"]
         cu == CleanupSession(caller[k].id, activeSessions[caller[k].mgr],
                              sess, client[r])
     IN /\ session' = [session EXCEPT ![r] = cu.sess]
        /\ activeSessions' = [activeSessions EXCEPT ![caller[k].mgr] = cu.keys]
        /\ client' = [client EXCEPT ![r] = cu.cl]
        /\ caller' = [caller EXCEPT
             ![k] = Settled([@ EXCEPT !.size =
                               CombinedSize(session[r], caller[k].finalSize)],
                            "ok")]
  /\ turn' = IF caller[k].force THEN k ELSE None
  /\ SessionFrame
  /\ UNCHANGED tick

\* Array.from(this.activeSessions.keys()): the ids in insertion order.
KeySeq(keys) ==
  SelectSeq(<<Sid("r1"), Sid("r2")>>, LAMBDA id : id \in keys)

\* forceStopAllRecordings() on manager r, lines 324-326: the ids of the table
\* are read once, before the first stop.
ForceStopAll(k, r) ==
  /\ turn = None
  /\ caller[k].pc = "idle"
  /\ caller' = [caller EXCEPT
       ![k] = [@ EXCEPT !.pc = "f_loop", !.force = TRUE, !.mgr = r,
                        !.todo = KeySeq(activeSessions[r]),
                        !.snap = KeySeq(activeSessions[r])]]
  /\ turn' = k
  /\ SessionFrame
  /\ UNCHANGED <<activeSessions, session, client, tick>>

\* One turn of the loop of forceStopAllRecordings (lines 327-333): it returns
\* when no id is left, and otherwise awaits stopRecording of the next id.
ForceNext(k) ==
  /\ turn = k
  /\ caller[k].pc = "f_loop"
  /\ IF caller[k].todo = <<>>
     THEN /\ caller' = [caller EXCEPT ![k].pc = "done",
                                      ![k].result = "returned"]
          /\ turn' = None
          /\ UNCHANGED <<session, client>>
     ELSE /\ StopRecordingBegin(k, caller[k].mgr, Head(caller[k].todo))
          /\ turn' = IF caller'[k].pc = "waiting" THEN None ELSE k
  /\ SessionFrame
  /\ UNCHANGED <<activeSessions, tick>>

\* A plausible slip: the status is read without looking whether the table
\* gave a session (reading a field of undefined raises).
SessionStatusUnchecked(keys, sess, id) ==
  IF FindSession(keys, sess, id) THEN sess.status ELSE "raised"

\* getSessionStatus(id), lines 319-322, on a table with `keys` whose object
\* for id is `sess`.
SessionStatus(keys, sess, id) ==
  IF FindSession(keys, sess, id) THEN sess.status ELSE "not_found"

\* What a read accessor leaves alone: everything but its caller's result.
ReadFrame ==
  /\ SessionFrame
  /\ UNCHANGED <<activeSessions, session, client, tick, turn>>

\* getSessionStatus(id) on manager r, called by k.
GetSessionStatus(k, r, id) ==
  /\ turn = None
  /\ caller[k].pc = "idle"
  /\ LET x == SlotOf(r, id)
     IN caller' = [caller EXCEPT
          ![k] = [@ EXCEPT !.pc = "read", !.mgr = r, !.id = id, !.slot = x,
                           !.result = SessionStatus(activeSessions[r],
                                                    session[x], id)]]
  /\ ReadFrame

\* getSession(id) on manager r (lines 311-313): the object or undefined.
GetSession(k, r, id) ==
  /\ turn = None
  /\ caller[k].pc = "idle"
  /\ LET x == SlotOf(r, id)
     IN caller' = [caller EXCEPT
          ![k] = [@ EXCEPT !.pc = "read", !.mgr = r, !.id = id, !.slot = x,
                           !.result =
                             IF FindSession(activeSessions[r], session[x], id)
                             THEN "object" ELSE "undefined"]]
  /\ ReadFrame

\* getAllSessions() on manager r (lines 315-317).
GetAllSessions(k, r) ==
  /\ turn = None
  /\ caller[k].pc = "idle"
  /\ caller' = [caller EXCEPT
       ![k] = [@ EXCEPT !.pc = "read", !.mgr = r, !.result = "list",
                        !.snap = KeySeq(activeSessions[r])]]
  /\ ReadFrame

\* Date.now() moves on.
AdvanceClock ==
  /\ turn = None
  /\ now < MaxClock
  /\ now' = now + 1
  /\ UNCHANGED <<pc, code, resp, activeRecordings, sessionData, cleanupTimer,
                 stopRecordings, stopResp, elapsed, activeSessions, session,
                 client, hist, caller, tick, turn>>

(***************************************************************************)
(* The program at the point where the start request of r1 has returned a   *)
(* session id: the state that startRecording lines 86-107, the client's    *)
(* lines 775-778 and the route's lines 108-123 build.                      *)
(***************************************************************************)
RecordingClient(tracks, dcState) ==
  [NewClient EXCEPT
     !.exists = TRUE, !.pcOpen = TRUE, !.dc = dcState,
     !.transport = "connected", !.isConnected = TRUE, !.isRecording = TRUE,
     !.local = TRUE, !.localSetups = {"active"}, !.remote = TRUE,
     !.recorder = "recording", !.hasStream = TRUE, !.streamTracks = tracks,
     !.streamKeys = {TrackStream(t) : t \in tracks},
     !.remoteStreams = [s \in StreamIds |->
        [audio |-> IF "a1" \in tracks THEN "a1" ELSE None,
         video |-> IF "v1" \in tracks THEN "v1" ELSE None]],
     !.live = tracks, !.delivered = tracks]

InitRec ==
  /\ pc = [r \in Reqs |-> IF r = "r1" THEN "done" ELSE "idle"]
  /\ code = [r \in Reqs |-> IF r = "r1" THEN CodeA ELSE NoCode]
  /\ resp = [r \in Reqs |-> IF r = "r1" THEN 200 ELSE 0]
  /\ activeRecordings = [c \in RouteCodes |-> IF c = CodeA THEN "r1" ELSE None]
  /\ sessionData = [r \in Reqs |->
       IF r = "r1" THEN [status |-> "recording", sessionId |-> Sid(r)]
       ELSE NoSessionData]
  /\ cleanupTimer = [r \in Reqs |-> FALSE]
  /\ stopRecordings = {}
  /\ stopResp = [c \in Codes |-> 0]
  /\ elapsed = [r \in Reqs |-> 0]
  /\ activeSessions = [r \in Reqs |-> IF r = "r1" THEN {Sid(r)} ELSE {}]
  /\ session = [r \in Reqs |-> IF r = "r1" THEN NewSession(r, 0) ELSE NoSession]
  /\ \E tracks \in {RecordedTracks}, dcState \in {"open"} :
       client = [r \in Reqs |-> IF r = "r1" THEN RecordingClient(tracks, dcState)
                                ELSE NewClient]
  /\ hist = [r \in Reqs |->
       IF r = "r1" THEN StartedHist ELSE NoHist]
  /\ now = 0
  /\ caller = [k \in Callers |-> NoCaller]
  /\ tick = [r \in Reqs |-> FALSE]
  /\ turn = None

NextRec ==
  \/ \E st \in {"connected", "disconnected", "failed"} :
       TransportChange("r1", st)
  \/ \E t \in StartTracks : TrackArrived("r1", t)
  \/ \E t \in StartTracks : TrackEnded("r1", t)
  \/ \E size \in ChunkSizes : RecorderData("r1", size)
  \/ \E size \in ChunkSizes : OldRecorderStopped("r1", size)
  \/ RecorderError("r1")
  \/ ChunkTick("r1")
  \/ ParticipantTick("r1")
  \/ ParticipantTickEnd("r1")
  \/ \E k \in Callers, id \in {Sid("r1"), "session_unknown"} :
       StopCall(k, "r1", id)
  \/ \E size \in ChunkSizes : RecorderStopped("r1", size)
  \/ \E k \in Callers : StopDisconnect(k)
  \/ \E k \in Callers : StopFinish(k)
  \/ AdvanceClock

SpecRec == InitRec /\ [][NextRec]_vars

\* The two routes while the session of r1 records: stop requests, and a
\* second start request up to the point where it would build a manager.
NextRoutes ==
  \/ \E c \in RouteCodes : StartReceive("r2", c)
  \/ \E o \in {"ok", "notoken", "noproject"} : StartToken("r2", o)
  \/ \E ok \in BOOLEAN : StartSpace("r2", ok)
  \/ \E c \in Codes : StopPOST(c)
  \/ ChunkTick("r1")
  \/ ParticipantTick("r1")
  \/ ParticipantTickEnd("r1")
  \/ AdvanceClock

SpecRoutes == InitRec /\ [][NextRoutes]_vars

\* What the runtime does by itself: a timer that is set fires, a recorder
\* that runs or was stopped delivers its events, and a continuation whose
\* promise is settled runs.  Requests, stop calls and what the network does
\* to the transport are not owed.
FairRec ==
  /\ WF_vars(ChunkTick("r1"))
  /\ WF_vars(ParticipantTick("r1"))
  /\ WF_vars(ParticipantTickEnd("r1"))
  /\ WF_vars(\E size \in ChunkSizes : RecorderData("r1", size))
  /\ WF_vars(\E size \in ChunkSizes : OldRecorderStopped("r1", size))
  /\ WF_vars(\E size \in ChunkSizes : RecorderStopped("r1", size))
  /\ \A k \in Callers : WF_vars(StopDisconnect(k)) /\ WF_vars(StopFinish(k))

SpecRecLive == SpecRec /\ FairRec

(***************************************************************************)
(* One manager whose startRecording has returned twice, so that its table  *)
(* holds two recording sessions, each with a client of its own, and the    *)
(* calls of its public methods (recording-manager.ts:310-334).             *)
(***************************************************************************)
InitForce ==
  /\ pc = [r \in Reqs |-> "done"]
  /\ code = [r \in Reqs |-> IF r = "r1" THEN CodeA ELSE CodeB]
  /\ resp = [r \in Reqs |-> 200]
  /\ activeRecordings = [c \in RouteCodes |->
       IF c = CodeA THEN "r1" ELSE IF c = CodeB THEN "r2" ELSE None]
  /\ sessionData = [r \in Reqs |-> [status |-> "recording", sessionId |-> Sid(r)]]
  /\ cleanupTimer = [r \in Reqs |-> FALSE]
  /\ stopRecordings = {}
  /\ stopResp = [c \in Codes |-> 0]
  /\ elapsed = [r \in Reqs |-> 0]
  /\ activeSessions = [r \in Reqs |-> IF r = "r1" THEN {Sid("r1"), Sid("r2")}
                                      ELSE {}]
  /\ session = [r \in Reqs |-> NewSession(r, 0)]
  /\ client = [r \in Reqs |-> RecordingClient(RecordedTracks, "open")]
  /\ hist = [r \in Reqs |-> StartedHist]
  /\ now = 0
  /\ caller = [k \in Callers |-> NoCaller]
  /\ tick = [r \in Reqs |-> FALSE]
  /\ turn = None

NextForce ==
  \/ ForceStopAll("k1", "r1")
  \/ ForceNext("k1")
  \/ \E id \in SessionIds : StopCall("k2", "r1", id)
  \/ \E id \in SessionIds : GetSessionStatus("k2", "r1", id)
  \/ \E id \in SessionIds : GetSession("k2", "r1", id)
  \/ GetAllSessions("k2", "r1")
  \/ \E r \in Reqs : RecorderError(r)
  \/ \E r \in Reqs, size \in ChunkSizes : RecorderStopped(r, size)
  \/ \E r \in Reqs, size \in ChunkSizes : OldRecorderStopped(r, size)
  \/ \E r \in Reqs : ChunkTick(r)
  \/ \E r \in Reqs, t \in StartTracks : TrackArrived(r, t)
  \/ \E r \in Reqs, t \in StartTracks : TrackEnded(r, t)
  \/ \E k \in Callers : StopDisconnect(k)
  \/ \E k \in Callers : StopFinish(k)

SpecForce == InitForce /\ [][NextForce]_vars

(***************************************************************************)
(* One client between connectToMeeting and the end of waitForMediaStreams: *)
(* the state that the start request of r1 has built when its offer/answer  *)
(* exchange settled, and the events the transport then delivers to it.     *)
(***************************************************************************)
ConnectedClient ==
  [NewClient EXCEPT !.exists = TRUE, !.pcOpen = TRUE, !.dc = "connecting",
                    !.local = TRUE, !.localSetups = {"active"},
                    !.remote = TRUE,
                    !.transport = "new", !.isConnected = TRUE]

WaitingForStreams(cl) ==
  /\ pc = [r \in Reqs |-> IF r = "r1" THEN "m_streams" ELSE "idle"]
  /\ code = [r \in Reqs |-> IF r = "r1" THEN CodeA ELSE NoCode]
  /\ resp = [r \in Reqs |-> 0]
  /\ activeRecordings = [c \in RouteCodes |-> IF c = CodeA THEN "r1" ELSE None]
  /\ sessionData = [r \in Reqs |->
       IF r = "r1" THEN [status |-> "starting", sessionId |-> ""]
       ELSE NoSessionData]
  /\ cleanupTimer = [r \in Reqs |-> FALSE]
  /\ stopRecordings = {}
  /\ stopResp = [c \in Codes |-> 0]
  /\ elapsed = [r \in Reqs |-> 0]
  /\ activeSessions = [r \in Reqs |-> {}]
  /\ session = [r \in Reqs |-> NoSession]
  /\ client = [r \in Reqs |-> IF r = "r1" THEN cl ELSE NewClient]
  /\ hist = [r \in Reqs |-> NoHist]
  /\ now = 0
  /\ caller = [k \in Callers |-> NoCaller]
  /\ tick = [r \in Reqs |-> FALSE]
  /\ turn = None

InitClient == WaitingForStreams(ConnectedClient)

NextClient ==
  \/ \E st \in {"connecting", "connected", "disconnected", "failed"} :
       TransportChange("r1", st)
  \/ \E t \in ClientTracks : TrackArrived("r1", t)
  \/ \E t \in ClientTracks : TrackEnded("r1", t)
  \/ DataChannelOpen("r1")

SpecClient == InitClient /\ [][NextClient]_vars

(***************************************************************************)
(* The same client once its transport is connected, its data channel is    *)
(* open and an audio track has arrived, and the messages the data channel  *)
(* then delivers (dataChannel.onmessage, oauth-service.ts:414-417).        *)
(***************************************************************************)
OpenClient ==
  [HandleIncomingTrack(ConnectedClient, "a1") EXCEPT
     !.transport = "connected", !.dc = "open"]

\* dataChannel.onmessage.
DataChannelMessage(r, m) ==
  /\ turn = None
  /\ Negotiated(r)
  /\ client[r].dc = "open"
  /\ Len(client[r].received) < MaxMsgs
  /\ client' = [client EXCEPT
       ![r] = [HandleDataChannelMessage(@, m) EXCEPT !.received = Append(@, m)]]
  /\ ClientFrame

InitChannel == WaitingForStreams(OpenClient)

NextChannel == \E m \in Messages : DataChannelMessage("r1", m)

SpecChannel == InitChannel /\ [][NextChannel]_vars

(***************************************************************************)
(* The start route alone, given any string as the meeting code.  A string  *)
(* is the join by hyphens of groups that hold no hyphen; the groups tried  *)
(* differ in length (0, 2, 3, 4, 5) and in their characters (lower case,   *)
(* digits, upper case, others).                                            *)
(***************************************************************************)
Groups ==
  {<<>>, <<"a", "b">>, <<"a", "b", "1">>, <<"A", "b", "1">>, <<"a", "_", "1">>,
   <<"a", "b", "c", "d">>, <<"0", "Z", "c", "d">>, <<"a", "b", " ", "d">>,
   <<"a", "b", "c", "d", "e">>}

RECURSIVE Join(_)
Join(gs) ==
  IF Len(gs) = 1 THEN gs[1] ELSE gs[1] \o <<"-">> \o Join(Tail(gs))

Inputs == {Join(gs) : gs \in UNION {[1..n -> Groups] : n \in 1..MaxGroups}}

NextCode == \E c \in Inputs : StartReceive("r1", c)

SpecCode == Init /\ [][NextCode]_vars

(***************************************************************************)
(* Properties.                                                             *)
(***************************************************************************)
\* Between the duplicate check (line 39) and the insert (line 92).
InWindow(r) == pc[r] \in {"token", "space"}

\* The start request of r ended in startRecording after the media client was
\* constructed and initialised.
FailedWithConnection(r) ==
  /\ pc[r] = "done"
  /\ hist[r].stage \in {"connect", "streams_timeout", "not_connected", "no_media"}

Closed(cl) == ~cl.pcOpen /\ cl.dc \in {None, "closed"}

TimersStopped(sess) == ~sess.chunkInterval /\ ~sess.participantInterval

\* C1: two start requests for the same code never are past the duplicate
\* check together, so that one of them is the one rejected.
C1_OneStartPassesCheck ==
  \A r1, r2 \in Reqs :
    (r1 # r2 /\ code[r1] = code[r2]) => ~(InWindow(r1) /\ InWindow(r2))

\* C2: a start request that arrives while a record for its code is in the
\* table is answered 409 and changes neither the table nor any record, and a
\* rejected request never owns a record, a session or a client.
C2_DuplicateRejected ==
  /\ [][\A r \in Reqs :
          (pc[r] = "idle" /\ pc'[r] # "idle" /\ activeRecordings[code'[r]] # None)
            => /\ resp'[r] = 409
               /\ pc'[r] = "done"
               /\ activeRecordings' = activeRecordings
               /\ sessionData' = sessionData
               /\ activeSessions' = activeSessions
               /\ client' = client]_vars
  /\ [](\A r \in Reqs :
          resp[r] = 409 => /\ sessionData[r] = NoSessionData
                           /\ \A c \in Codes : activeRecordings[c] # r
                           /\ activeSessions[r] = {}
                           /\ ~client[r].exists)

C2_Witness ==
  \E r \in Reqs : resp[r] = 409 /\ activeRecordings[code[r]] \notin {None, r}

\* C3: a start request that found the transport connected and a live track in
\* the registry at both queries of the pipeline start ends with a session id
\* and a session that is recording.
C3_RecordingReached ==
  \A r \in Reqs :
    (pc[r] = "done" /\ hist[r].connAtStart /\ hist[r].liveAtQuery
       /\ hist[r].liveAtEnd)
      => /\ resp[r] = 200
         /\ Sid(r) \in activeSessions[r]
         /\ session[r].status = "recording"

\* C4: when a start request has failed after its connection was initialised,
\* the connection is closed, no timer runs and no session is in the table.
C4_TornDownOnFailure ==
  \A r \in Reqs :
    FailedWithConnection(r)
      => /\ Closed(client[r])
         /\ TimersStopped(session[r])
         /\ Sid(r) \notin activeSessions[r]

C6_StopTearsDown ==
  \A k \in Callers :
    LET r == caller[k].mgr IN
    /\ (caller[k].pc = "waiting" /\ client[r].stopWaiter = k)
         => session[r].status = "stopping" /\ client[r].log = <<>>
    /\ caller[k].pc = "disconnect"
         => /\ session[r].status = "stopping"
            /\ client[r].log = <<"finalized">>
            /\ ~client[r].isRecording
            /\ client[r].pcOpen
    /\ caller[k].pc = "finish"
         => /\ session[r].status = "stopping"
            /\ client[r].log = <<"finalized", "closed">>
            /\ caller[k].id \in activeSessions[r]
    /\ caller[k].result = "ok"
         => /\ caller[k].id \notin activeSessions[r]
            /\ client[r].log = <<"finalized", "closed">>
            /\ Closed(client[r])
            /\ TimersStopped(session[r])

C6_Witness == \E k \in Callers : caller[k].result = "ok"

\* C7: a stop that failed on a session of the table has left the status
\* error and the record in the table.
C7_FailedStopKeepsRecord ==
  \A k \in Callers :
    caller[k].result = "error"
      => /\ caller[k].id \in activeSessions[caller[k].mgr]
         /\ session[caller[k].mgr].status = "error"

C7_Witness == \E k \in Callers : caller[k].result = "error"

\* C8: a stop for an id that is not in the table ends as not found and leaves
\* everything but the caller's own result as it was.
C8_UnknownStopNoEffect ==
  [][\A k \in Callers :
       (caller[k].pc = "idle" /\ caller'[k].pc # "idle"
          /\ caller'[k].id \notin activeSessions[caller'[k].mgr])
         => /\ caller'[k].result = "not_found"
            /\ \A j \in Callers \ {k} : caller'[j] = caller[j]
            /\ UNCHANGED <<pc, code, resp, activeRecordings, sessionData,
                           cleanupTimer, stopRecordings, stopResp, elapsed,
                           activeSessions, session, client, hist, now, tick,
                           turn>>]_vars

C8_Witness ==
  \E k \in Callers :
    /\ caller[k].result = "not_found"
    /\ Sid("r1") \in activeSessions["r1"]
    /\ session["r1"].status = "recording"

\* C9: the conference is polled only while the elapsed time is below the
\* timeout, and a start that ended because no conference appeared answered
\* an error, never built a client and left no session in the table.
C9_NoConference ==
  \A r \in Reqs :
    /\ pc[r] = "m_poll" => elapsed[r] < ConferenceTimeoutMs
    /\ hist[r].stage = "noconference"
         => /\ elapsed[r] >= ConferenceTimeoutMs
            /\ resp[r] = 500
            /\ client[r] = NewClient
            /\ session[r] = NoSession
            /\ activeSessions[r] = {}

C9_Witness == \E r \in Reqs : hist[r].stage = "noconference"

C11_RegistryMatchesLive ==
  \A r \in Reqs : \A s \in StreamIds :
    s \in client[r].streamKeys
      <=> \E t \in ClientTracks : t \in client[r].live /\ TrackStream(t) = s

\* The participants Map of a client.
Table(cl) == [keys |-> cl.participantKeys, recs |-> cl.participants]

MembershipTypes == {"participant_joined", "participant_left"}

ParticipantTypes == MembershipTypes \cup {"participant_update"}

KnownTypes ==
  ParticipantTypes \cup {"media_update", "presentation_started",
                         "presentation_stopped"}

\* m names participant p and is one of the three participant messages.
About(m, p) == m.json /\ m.hasData /\ m.pid = p /\ m.type \in ParticipantTypes

\* m ends whatever was known of p: p left, or p joined with a fresh record.
Resets(m, p) ==
  /\ About(m, p)
  /\ \/ m.type = "participant_left"
     \/ m.type = "participant_joined" /\ m.name # ""

\* Message i of seq is part of the net effect: no later message resets its
\* participant.
InNetEffect(seq, i) ==
  \E p \in Pids :
    /\ About(seq[i], p)
    /\ \A j \in (i + 1)..Len(seq) : ~Resets(seq[j], p)

RECURSIVE ReplayNetEffect(_, _, _)
ReplayNetEffect(cl, seq, i) ==
  IF i > Len(seq) THEN cl
  ELSE ReplayNetEffect(IF InNetEffect(seq, i)
                       THEN HandleDataChannelMessage(cl, seq[i]) ELSE cl,
                       seq, i + 1)

\* The last joined/left message about p in seq is a participant_left.
LastMembershipIsLeft(seq, p) ==
  \E i \in 1..Len(seq) :
    /\ About(seq[i], p) /\ seq[i].type = "participant_left"
    /\ \A j \in (i + 1)..Len(seq) :
         ~(About(seq[j], p) /\ seq[j].type \in MembershipTypes)

\* C13: the participant table is the one that the net-effect subsequence of
\* the received messages builds from an empty table, and a participant whose
\* last joined/left message is participant_left has no entry.
C13_NetEffect ==
  \A r \in Reqs :
    LET cl == client[r] IN
    /\ Table(cl) = Table(ReplayNetEffect(NewClient, cl.received, 1))
    /\ \A p \in Pids :
         LastMembershipIsLeft(cl.received, p) => p \notin cl.participantKeys

C13_Witness ==
  LET cl == client["r1"] IN
  /\ Len(cl.received) = 3
  /\ Resets(cl.received[1], "p1") /\ cl.received[1].type = "participant_joined"
  /\ cl.received[2].type = "participant_update" /\ cl.received[2].pid = "p1"
  /\ cl.received[2].upd = Presenting
  /\ cl.received[3] = cl.received[1]
  /\ "p1" \in cl.participantKeys
  /\ ~InNetEffect(cl.received, 1) /\ ~InNetEffect(cl.received, 2)

ParticipantFields ==
  {"id", "displayName", "isPresenting", "audioEnabled", "videoEnabled"}

\* The step hands message m to handleDataChannelMessage of the client of r.
Receives(r, m) == client'[r].received = Append(client[r].received, m)

\* C14: a participant_update for a participant of the table sets the fields
\* its updates supply and no other field, touches no other record and no key;
\* for a participant that is not in the table it changes nothing.
C14_UpdateMerges ==
  [][\A r \in Reqs, m \in Messages :
       (Receives(r, m) /\ m.type = "participant_update" /\ m.hasData)
         => LET old == client[r]
                new == client'[r]
            IN /\ new.participantKeys = old.participantKeys
               /\ \A q \in Pids \ {m.pid} :
                    new.participants[q] = old.participants[q]
               /\ IF m.pid \in old.participantKeys
                  THEN \A f \in ParticipantFields :
                         new.participants[m.pid][f] =
                           IF f \in m.upd.has THEN m.upd.val[f]
                           ELSE old.participants[m.pid][f]
                  ELSE new.participants = old.participants]_vars

C14_Witness ==
  LET cl == client["r1"] IN
  /\ Len(cl.received) = 3
  /\ cl.received[2].type = "participant_update" /\ cl.received[2].upd = Presenting
  /\ cl.received[3].type = "participant_update" /\ cl.received[3].upd = Renamed
  /\ cl.received[3].pid = "p1"
  /\ "p1" \in cl.participantKeys
  /\ cl.participants["p1"].displayName = "Bob"
  /\ cl.participants["p1"].isPresenting
  /\ cl.participants["p1"].audioEnabled

\* m is a payload the client cannot handle: not JSON, a type it does not
\* know, or a participant message without its data.
Unhandled(m) ==
  \/ ~m.json
  \/ m.type \notin KnownTypes
  \/ m.type \in ParticipantTypes /\ ~m.hasData

RECURSIVE ReplayHandled(_, _, _)
ReplayHandled(cl, seq, i) ==
  IF i > Len(seq) THEN cl
  ELSE ReplayHandled(IF Unhandled(seq[i]) THEN cl
                     ELSE HandleDataChannelMessage(cl, seq[i]),
                     seq, i + 1)

\* C15: a payload the client cannot handle changes nothing of the client, and
\* the messages around it are handled as if it had not been sent.
C15_UnhandledIsNoOp ==
  /\ [][\A r \in Reqs, m \in Messages :
          (Receives(r, m) /\ Unhandled(m))
            => client'[r] = [client[r] EXCEPT !.received = Append(@, m)]]_vars
  /\ [](\A r \in Reqs :
          Table(client[r]) = Table(ReplayHandled(NewClient, client[r].received, 1)))

C15_Witness ==
  LET cl == client["r1"] IN
  /\ Len(cl.received) = 3
  /\ ~cl.received[1].json
  /\ cl.received[2].type = "participant_joined" /\ ~cl.received[2].hasData
  /\ Resets(cl.received[3], "p2") /\ cl.received[3].type = "participant_joined"
  /\ cl.participantKeys = {"p2"}
  /\ cl.dc = "open" /\ cl.transport = "connected" /\ cl.streamKeys = {"s1"}

Queried(r) == pc[r] = "done" /\ hist[r].stage \in {"no_media", "ok"}

\* C16: a start whose first query found no live track and whose query after
\* the grace wait found one ends with the client recording.
C16_GraceRequerySucceeds ==
  \A r \in Reqs :
    (Queried(r) /\ ~hist[r].liveAtQuery /\ hist[r].liveAtEnd)
      => resp[r] = 200 /\ client[r].isRecording

\* C17: a start that made its first query fails for lack of media exactly
\* when neither that query nor the one after the grace wait found a live
\* track, and after that failure the client neither records nor has a recorder.
C17_NoMediaExactly ==
  \A r \in Reqs :
    Queried(r)
      => /\ hist[r].stage = "no_media"
              <=> (~hist[r].liveAtQuery /\ ~hist[r].liveAtEnd)
         /\ hist[r].stage = "no_media"
              => ~client[r].isRecording /\ client[r].recorder = None

\* C18: a stop that reaches a client with no recording in progress fails and
\* leaves the client (chunks, end time and recording flag) as it was.
C18_StopWithoutCapture ==
  [][\A k \in Callers :
       (/\ caller[k].pc = "idle" /\ caller'[k].pc # "idle"
        /\ caller'[k].id \in activeSessions[caller'[k].mgr]
        /\ ~client[caller'[k].mgr].isRecording)
         => caller'[k].result = "error" /\ client' = client]_vars

C18_Witness ==
  \E k \in Callers :
    /\ caller[k].result = "error"
    /\ ~client[caller[k].mgr].isRecording
    /\ ~client[caller[k].mgr].stopPending
    /\ client[caller[k].mgr].log = <<>>

C20_RestartKeepsChunks ==
  [][\A r \in Reqs :
       LET old == client[r].combinedChunks
           new == client'[r].combinedChunks
       IN /\ Len(new) >= Len(old)
          /\ SubSeq(new, 1, Len(old)) = old
          /\ (client'[r].oldPending > client[r].oldPending
                /\ client'[r].recorder = "recording") => new = old]_vars

C20_Witness ==
  /\ client["r1"].oldPending > 0
  /\ client["r1"].recorder = "recording"
  /\ client["r1"].combinedChunks # <<>>

\* C21: forceStopAllRecordings stops the ids it read from the table one after
\* the other in that order, goes on after a stop that failed, never raises,
\* and once it has returned every one of those sessions is out of the table
\* or has status error.
C21_ForceStopAll ==
  \A k \in Callers :
    LET c == caller[k] IN
    c.force
      => /\ c.result # "raised"
         /\ Len(c.tried) + Len(c.todo) = Len(c.snap)
         /\ \A i \in 1..Len(c.tried) : c.tried[i][1] = c.snap[i]
         /\ c.pc = "done"
              => /\ c.result = "returned"
                 /\ Len(c.tried) = Len(c.snap)
                 /\ \A i \in 1..Len(c.snap) :
                      \/ c.snap[i] \notin activeSessions[c.mgr]
                      \/ session[SlotOf(c.mgr, c.snap[i])].status = "error"

C21_Witness ==
  \E k \in Callers :
    /\ caller[k].force /\ caller[k].pc = "done"
    /\ caller[k].tried = <<<<Sid("r1"), "error">>, <<Sid("r2"), "ok">>>>
    /\ activeSessions[caller[k].mgr] = {Sid("r1")}

\* The session of r is out of the table, or its status is not recording.
LeftRecording(r) ==
  Sid(r) \notin activeSessions[r] \/ session[r].status # "recording"

\* C22: once the session's status has left recording or its record is out of
\* the table, no step adds to the record or begins a participant snapshot, a
\* tick of either loop cancels its own timer, and the step that takes the
\* record out of the table leaves both timers cancelled.
C22_TicksSelfCancel ==
  [][\A r \in Reqs :
       /\ LeftRecording(r)
            => /\ session'[r].chunks = session[r].chunks
               /\ session'[r].totalSize = session[r].totalSize
               /\ tick'[r] => tick[r]
               /\ ChunkTick(r) => ~session'[r].chunkInterval
               /\ ParticipantTick(r) => ~session'[r].participantInterval
               /\ session'[r].chunkInterval => session[r].chunkInterval
               /\ session'[r].participantInterval => session[r].participantInterval
       /\ (Sid(r) \in activeSessions[r] /\ Sid(r) \notin activeSessions'[r])
            => TimersStopped(session'[r])]_vars

C22_Witness ==
  /\ Sid("r1") \in activeSessions["r1"]
  /\ session["r1"].status = "error"
  /\ TimersStopped(session["r1"])
  /\ session["r1"].chunks = <<>>

Statuses == {"starting", "recording", "stopping", "stopped", "error"}

\* C25: a read accessor changes nothing but its caller's result, and the
\* result of getSessionStatus is the status of the record the table holds
\* under the id, or not_found when it holds none; it never raises.
C25_ReadAccessors ==
  [][\A k \in Callers :
       (caller[k].pc = "idle" /\ caller'[k].pc = "read")
         => /\ \A j \in Callers \ {k} : caller'[j] = caller[j]
            /\ UNCHANGED <<pc, code, resp, activeRecordings, sessionData,
                           cleanupTimer, stopRecordings, stopResp, elapsed,
                           activeSessions, session, client, hist, now, tick,
                           turn>>
            /\ caller'[k].result # "raised"
            /\ caller'[k].result \notin {"object", "undefined", "list"}
                 => caller'[k].result =
                      IF caller'[k].id \in activeSessions[caller'[k].mgr]
                      THEN session[SlotOf(caller'[k].mgr, caller'[k].id)].status
                      ELSE "not_found"
            /\ caller'[k].result \in Statuses \cup
                                     {"not_found", "object", "undefined", "list"}]_vars

C25_Witness ==
  \E k \in Callers :
    /\ caller[k].pc = "read"
    /\ caller[k].id = Sid("r2") /\ caller[k].result = "not_found"
    /\ activeSessions["r1"] = {Sid("r1")}
    /\ session["r1"].status = "error"

\* The groups of a string: what lies between its hyphens.
RECURSIVE Split(_)
Split(str) ==
  IF str = <<>> THEN <<<<>>>>
  ELSE LET rest == Split(Tail(str))
       IN IF Head(str) = "-" THEN <<<<>>>> \o rest
          ELSE <<<<Head(str)>> \o Head(rest)>> \o Tail(rest)

\* Three groups of lengths 3, 4 and 3 of lower-case letters and digits.
WellFormed(str) ==
  LET g == Split(str)
  IN /\ Len(g) = 3
     /\ Len(g[1]) = 3 /\ Len(g[2]) = 4 /\ Len(g[3]) = 3
     /\ \A i \in 1..3 : \A j \in 1..Len(g[i]) : g[i][j] \in Lower \cup Digit

\* C26: the start route lets a meeting code pass its format check exactly
\* when the code is three hyphen-separated groups of lower-case letters and
\* digits of lengths 3, 4 and 3.
C26_ValidExactly ==
  \A r \in Reqs :
    pc[r] # "idle" => (resp[r] # 400 <=> WellFormed(code[r]))


(***************************************************************************)
(* C27: a start request whose meeting code fails the format check is        *)
(* answered 400 in the step that reads it: it never waits for the token,    *)
(* the space lookup, the conference poll or the signaling exchange, and it  *)
(* owns no entry of the live-session table, no record, no manager session   *)
(* and no client.                                                           *)
(***************************************************************************)
\* The request is at an await of a network call.
AtNetworkCall(r) ==
  pc[r] \in {"token", "space", "m_space", "m_poll", "m_init", "m_offer",
             "m_local", "m_exchange", "m_connect", "m_streams", "m_settle",
             "m_grace"}

C27_InvalidRejectedFirst ==
  \A r \in Reqs :
    (pc[r] # "idle" /\ ~IsValidMeetingCode(code[r])) =>
      /\ ~AtNetworkCall(r)
      /\ pc[r] = "done" /\ resp[r] = 400 /\ hist[r].stage = "invalid"
      /\ \A c \in DOMAIN activeRecordings : activeRecordings[c] # r
      /\ sessionData[r] = NoSessionData
      /\ ~cleanupTimer[r]
      /\ activeSessions[r] = {} /\ session[r] = NoSession
      /\ client[r] = NewClient

\* A code of the wrong shape has been rejected while another request with a
\* valid code is in the table.
C27_Witness ==
  \E r, q \in Reqs :
    /\ pc[r] = "done" /\ resp[r] = 400
    /\ code[r] # NoCode /\ ~IsValidMeetingCode(code[r])
    /\ q # r /\ \E c \in Codes : activeRecordings[c] = q



(***************************************************************************)
(* The conference wait by itself: start requests arrive and reach          *)
(* waitForActiveConference, whose polls settle.  Every poll that was made   *)
(* settles (the request resolves or rejects), and the timer that follows    *)
(* fires.                                                                   *)
(***************************************************************************)
NextPoll ==
  \/ \E r \in Reqs, c \in Codes : StartReceive(r, c)
  \/ \E r \in Reqs, o \in {"ok", "notoken", "noproject"} : StartToken(r, o)
  \/ \E r \in Reqs, ok \in BOOLEAN : StartSpace(r, ok)
  \/ \E r \in Reqs, ok \in BOOLEAN : MgrSpace(r, ok)
  \/ \E r \in Reqs, res \in {"active", "none", "error"}, late \in {0, MaxPollMs} :
       MgrPoll(r, res, late)
  \/ \E r \in Reqs : CleanupTimerFire(r)

FairPoll ==
  \A r \in Reqs :
    WF_vars(\E res \in {"active", "none", "error"}, late \in {0, MaxPollMs} :
              MgrPoll(r, res, late))

SpecPoll == Init /\ [][NextPoll]_vars /\ FairPoll

(***************************************************************************)
(* C28: the conference wait terminates.  While it polls, no poll has        *)
(* reported a conference, the poll in flight was made at an elapsed time    *)
(* below 30 s and at least 5 s after the one before, and it is at most the  *)
(* sixth; a poll that settles ends the wait with the conference, or is      *)
(* followed by the next poll, or ends the wait with the error; when no time *)
(* was lost the error comes after exactly six polls; and every wait ends.   *)
(***************************************************************************)
Polling(r) == pc[r] = "m_poll"

C28_PollStep(r) ==
  \/ UNCHANGED <<pc[r], elapsed[r], hist[r]>>
  \/ /\ pc'[r] = "m_init" /\ hist'[r].conference
     /\ hist'[r].stage = None
  \/ /\ Polling(r)'
     /\ hist'[r].polls = hist[r].polls + 1
     /\ elapsed'[r] >= elapsed[r] + ConferenceIntervalMs
     /\ elapsed'[r] < ConferenceTimeoutMs
  \/ /\ pc'[r] = "done" /\ hist'[r].stage = "noconference"
     /\ ~hist'[r].conference
     /\ hist'[r].polls = hist[r].polls
     /\ elapsed'[r] >= ConferenceTimeoutMs
     /\ resp'[r] = 500

C28_PollingTerminates ==
  /\ [](\A r \in Reqs :
          /\ Polling(r) =>
               /\ ~hist[r].conference
               /\ hist[r].polls \in 1..6
               /\ elapsed[r] < ConferenceTimeoutMs
               /\ elapsed[r] >= ConferenceIntervalMs * (hist[r].polls - 1)
          /\ hist[r].stage = "noconference" =>
               /\ hist[r].polls <= 6
               /\ elapsed[r] = ConferenceIntervalMs * hist[r].polls
                    => hist[r].polls = 6)
  /\ [][\A r \in Reqs : Polling(r) => C28_PollStep(r)]_vars
  /\ \A r \in Reqs : Polling(r) ~> ~Polling(r)

\* A wait gave up after its sixth poll, none of which took time.
C28_Witness ==
  \E r \in Reqs :
    /\ hist[r].stage = "noconference"
    /\ hist[r].polls = 6
    /\ elapsed[r] = ConferenceTimeoutMs



(***************************************************************************)
(* C29: the client's startRecording is called, and a recorder is made,      *)
(* only after waitForMediaStreams read the state 'connected' and its settle *)
(* delay passed; the checks of the wait are at least 500 ms apart; a wait   *)
(* that reached 10 s without reading 'connected' fails the start, and the   *)
(* client's startRecording is never called.                                 *)
(***************************************************************************)
\* The manager has called the client's startRecording.
PipelineAsked(r) ==
  \/ pc[r] = "m_grace"
  \/ hist[r].stage \in {"ok", "not_connected", "already_recording", "no_media"}

\* The client records, or has made a recorder.
PipelineStarted(r) == client[r].isRecording \/ client[r].recorder # None

C29_StartedAfterConnected ==
  /\ [](\A r \in Reqs :
          /\ (PipelineAsked(r) \/ PipelineStarted(r) \/ pc[r] = "m_settle")
               => hist[r].sawConnected
          /\ pc[r] = "m_streams" => ~hist[r].sawConnected
          /\ hist[r].stage = "streams_timeout" =>
               /\ ~hist[r].sawConnected
               /\ elapsed[r] >= StreamsTimeoutMs
               /\ pc[r] = "done" /\ resp[r] = 500
               /\ Sid(r) \notin activeSessions[r]
               /\ ~PipelineAsked(r) /\ ~PipelineStarted(r))
  /\ [][\A r \in Reqs :
          /\ (~PipelineAsked(r) /\ PipelineAsked(r)') => pc[r] = "m_settle"
          /\ (~hist[r].sawConnected /\ hist'[r].sawConnected) =>
               /\ client[r].transport = "connected"
               /\ pc'[r] = "m_settle"
          /\ (pc[r] = "m_streams" /\ pc'[r] = "m_streams"
                /\ elapsed'[r] # elapsed[r]) =>
               elapsed'[r] >= elapsed[r] + StreamsIntervalMs]_vars

\* One start called the client's startRecording after the transport was seen
\* connected; another gave up waiting for it.
C29_Witness ==
  \E r, q \in Reqs :
    /\ PipelineAsked(r) /\ hist[r].sawConnected
    /\ hist[q].stage = "streams_timeout"
    /\ client[q].transport # "connected"



(***************************************************************************)
(* C30: connectToMeeting negotiates in a fixed order.  The description set  *)
(* locally and the one submitted have every a=setup attribute rewritten to  *)
(* active; nothing is submitted before the local description is set; the    *)
(* remote description is applied only after the exchange returned an        *)
(* answer; the client is marked connected only with a remote description;   *)
(* and after an exchange that failed there is no remote description and     *)
(* the client is not marked connected.                                      *)
(***************************************************************************)
\* The offer was submitted and the exchange gave no answer.
ExchangeFailed(r) ==
  hist[r].stage = "connect" /\ hist[r].submitted /\ ~hist[r].answered

C30_NegotiationOrder ==
  \A r \in Reqs :
    /\ client[r].local =>
         client[r].localSetups # {} /\ client[r].localSetups \subseteq {"active"}
    /\ hist[r].submitted =>
         /\ client[r].local
         /\ hist[r].submittedSetups # {}
         /\ hist[r].submittedSetups \subseteq {"active"}
    /\ hist[r].answered => hist[r].submitted
    /\ client[r].remote => hist[r].answered
    /\ client[r].isConnected => client[r].remote
    /\ pc[r] \in {"m_offer", "m_local"} =>
         ~client[r].local /\ ~hist[r].submitted
    /\ pc[r] = "m_exchange" => ~hist[r].answered /\ ~client[r].remote
    /\ pc[r] = "m_connect" => ~client[r].remote /\ ~client[r].isConnected
    /\ ExchangeFailed(r) =>
         /\ ~client[r].remote /\ ~client[r].isConnected
         /\ pc[r] = "done" /\ resp[r] = 500

\* One start was marked connected after an answer; the exchange of another
\* failed.
C30_Witness ==
  \E r, q \in Reqs :
    /\ client[r].isConnected /\ client[r].remote
    /\ client[r].localSetups = {"active"}
    /\ ExchangeFailed(q)



(***************************************************************************)
(* The client by itself, held by a caller that calls its operations one    *)
(* after the other in any order: initializeConnection, connectToMeeting,   *)
(* startRecording and disconnect (oauth-service.ts:292, 633, 750, 888),    *)
(* while the transport delivers its events.  The client is new, or is the  *)
(* one of a recording session.                                             *)
(***************************************************************************)
ApiFrame ==
  UNCHANGED <<pc, code, resp, activeRecordings, sessionData, cleanupTimer,
              stopRecordings, stopResp, elapsed, activeSessions, session,
              now, tick, turn>>

\* The caller k goes on to `at` with the outcome `result` of the call `op`.
ApiAt(k, op, at, result) ==
  caller' = [caller EXCEPT ![k] = [@ EXCEPT !.pc = at, !.id = op,
                                            !.result = result]]

\* connectToMeeting lines 634-636: there is no peer connection.
ConnectRefused(cl) == ~cl.pcOpen

\* A plausible slip: a capture in progress does not turn the start down.
StartRefusedUnlessConnected(cl) == ~cl.isConnected

\* startRecording lines 751-757.
StartRefused(cl) == ~cl.isConnected \/ cl.isRecording

\* initializeConnection on a client that never had a peer connection: a new
\* peer connection, with its data channel, and no description yet.  (The
\* caller does not initialize a client again after disconnect.)
ApiInitialize(k, r) ==
  /\ caller[k].pc = "idle"
  /\ ~client[r].pcOpen /\ client[r].transport = None
  /\ client' = [client EXCEPT
       ![r] = [@ EXCEPT !.exists = TRUE, !.pcOpen = TRUE,
                        !.dc = "connecting", !.transport = "new",
                        !.local = FALSE, !.localSetups = {},
                        !.remote = FALSE]]
  /\ hist' = [hist EXCEPT ![r].offer = {}, ![r].submitted = FALSE,
                          ![r].submittedSetups = {}, ![r].answered = FALSE]
  /\ ApiAt(k, "initialize", "idle", "initialized")
  /\ ApiFrame

\* connectToMeeting is called (lines 633-642).
ApiConnect(k, r) ==
  /\ caller[k].pc = "idle"
  /\ IF ConnectRefused(client[r])
     THEN ApiAt(k, "connect", "idle", "connect_refused")
     ELSE ApiAt(k, "connect", "c_offer", None)
  /\ UNCHANGED <<client, hist>>
  /\ ApiFrame

\* createOffer settles (lines 642-654).
ApiConnectOffer(k, r, ok, offer) ==
  /\ caller[k].pc = "c_offer"
  /\ IF ok
     THEN /\ hist' = [hist EXCEPT
                        ![r].offer = SetupValues(ModifySDPForMeetAPI(offer))]
          /\ ApiAt(k, "connect", "c_local", None)
     ELSE /\ hist' = hist
          /\ ApiAt(k, "connect", "idle", "connect_failed")
  /\ client' = client
  /\ ApiFrame

\* setLocalDescription settles and the offer is posted (lines 654-706).
ApiConnectLocal(k, r, ok) ==
  /\ caller[k].pc = "c_local"
  /\ IF ok
     THEN /\ client' = [client EXCEPT ![r].local = TRUE,
                                      ![r].localSetups = hist[r].offer]
          /\ hist' = [hist EXCEPT ![r].submitted = TRUE,
                                  ![r].submittedSetups = hist[r].offer]
          /\ ApiAt(k, "connect", "c_exchange", None)
     ELSE /\ UNCHANGED <<client, hist>>
          /\ ApiAt(k, "connect", "idle", "connect_failed")
  /\ ApiFrame

\* The exchange settles (lines 708-722, 661).
ApiConnectExchange(k, r, res) ==
  /\ caller[k].pc = "c_exchange"
  /\ IF res = "answer"
     THEN /\ hist' = [hist EXCEPT ![r].answered = TRUE]
          /\ ApiAt(k, "connect", "c_remote", None)
     ELSE /\ hist' = hist
          /\ ApiAt(k, "connect", "idle", "connect_failed")
  /\ client' = client
  /\ ApiFrame

\* setRemoteDescription settles (lines 661-669).
ApiConnectRemote(k, r, ok) ==
  /\ caller[k].pc = "c_remote"
  /\ IF ok
     THEN /\ client' = [client EXCEPT ![r].remote = TRUE,
                                      ![r].isConnected = TRUE]
          /\ ApiAt(k, "connect", "idle", "connected")
     ELSE /\ client' = client
          /\ ApiAt(k, "connect", "idle", "connect_failed")
  /\ hist' = hist
  /\ ApiFrame

\* startRecording is called (lines 750-767).
ApiStartRecording(k, r) ==
  /\ caller[k].pc = "idle"
  /\ LET cl == client[r]
         c1 == UpdateRecordingStream(cl)
     IN IF StartRefused(cl)
        THEN /\ client' = client
             /\ ApiAt(k, "start", "idle", "start_refused")
        ELSE IF NoRecordingStream(c1)
        THEN /\ client' = [client EXCEPT ![r] = c1]
             /\ ApiAt(k, "start", "s_grace", None)
        ELSE /\ client' = [client EXCEPT ![r] = BeginCapture(c1, now)]
             /\ ApiAt(k, "start", "idle", "started")
  /\ hist' = hist
  /\ ApiFrame

\* The grace wait of startRecording has passed (lines 767-785).
ApiStartGrace(k, r) ==
  /\ caller[k].pc = "s_grace"
  /\ LET c1 == UpdateRecordingStream(client[r])
     IN IF NoRecordingStream(c1)
        THEN /\ client' = [client EXCEPT ![r] = c1]
             /\ ApiAt(k, "start", "idle", "start_failed")
        ELSE /\ client' = [client EXCEPT ![r] = BeginCapture(c1, now)]
             /\ ApiAt(k, "start", "idle", "started")
  /\ hist' = hist
  /\ ApiFrame

\* disconnect (lines 888-921).
ApiDisconnect(k, r) ==
  /\ caller[k].pc = "idle"
  /\ IF DisconnectThrows(client[r])
     THEN /\ client' = client
          /\ ApiAt(k, "disconnect", "idle", "disconnect_failed")
     ELSE /\ client' = [client EXCEPT ![r] = Disconnect(@)]
          /\ ApiAt(k, "disconnect", "idle", "disconnected")
  /\ hist' = hist
  /\ ApiFrame

\* The client is new (constructor, lines 282-290), or records.
InitApi ==
  /\ pc = [r \in Reqs |-> IF r = "r1" THEN "api" ELSE "idle"]
  /\ code = [r \in Reqs |-> NoCode]
  /\ resp = [r \in Reqs |-> 0]
  /\ activeRecordings = [c \in RouteCodes |-> None]
  /\ sessionData = [r \in Reqs |-> NoSessionData]
  /\ cleanupTimer = [r \in Reqs |-> FALSE]
  /\ stopRecordings = {}
  /\ stopResp = [c \in Codes |-> 0]
  /\ elapsed = [r \in Reqs |-> 0]
  /\ activeSessions = [r \in Reqs |-> {}]
  /\ session = [r \in Reqs |-> NoSession]
  /\ \E recording \in BOOLEAN :
       /\ client = [r \in Reqs |->
            IF r # "r1" THEN NewClient
            ELSE IF recording THEN RecordingClient(RecordedTracks, "open")
            ELSE [NewClient EXCEPT !.exists = TRUE]]
       /\ hist = [r \in Reqs |->
            IF r = "r1" /\ recording THEN StartedHist ELSE NoHist]
  /\ now = 0
  /\ caller = [k \in Callers |-> NoCaller]
  /\ tick = [r \in Reqs |-> FALSE]
  /\ turn = None

NextApi ==
  \/ ApiInitialize("k1", "r1")
  \/ ApiConnect("k1", "r1")
  \/ \E ok \in BOOLEAN, offer \in Offers : ApiConnectOffer("k1", "r1", ok, offer)
  \/ \E ok \in BOOLEAN : ApiConnectLocal("k1", "r1", ok)
  \/ \E res \in {"answer", "refused", "error"} :
       ApiConnectExchange("k1", "r1", res)
  \/ \E ok \in BOOLEAN : ApiConnectRemote("k1", "r1", ok)
  \/ ApiStartRecording("k1", "r1")
  \/ ApiStartGrace("k1", "r1")
  \/ ApiDisconnect("k1", "r1")
  \/ \E st \in {"connecting", "connected", "disconnected", "failed"} :
       TransportChange("r1", st)
  \/ \E t \in StartTracks : TrackArrived("r1", t)

SpecApi == InitApi /\ [][NextApi]_vars

(***************************************************************************)
(* C31: the client accepts its operations only in order.  A connect that   *)
(* finds no peer connection (never initialized, or disconnected) is turned *)
(* down in the step of the call, changing nothing and posting no offer; an *)
(* offer is posted only by a connect that found a peer connection; a start *)
(* on a client that is not marked connected, or that records, is turned    *)
(* down and changes nothing; and a client is marked connected only with a  *)
(* remote description.                                                     *)
(***************************************************************************)
C31_Called(k, op) ==
  caller[k].pc = "idle" /\ caller'[k] # caller[k] /\ caller'[k].id = op

C31_OperationsInOrder ==
  /\ [](\A r \in Reqs : client[r].isConnected => client[r].remote)
  /\ [][\A k \in Callers :
          /\ (C31_Called(k, "connect") /\ ~client["r1"].pcOpen) =>
               /\ caller'[k].pc = "idle"
               /\ caller'[k].result = "connect_refused"
               /\ client' = client /\ hist' = hist
          /\ (caller[k].pc # "c_exchange" /\ caller'[k].pc = "c_exchange") =>
               client["r1"].pcOpen /\ caller[k].pc = "c_local"
          /\ (C31_Called(k, "start")
                /\ (~client["r1"].isConnected \/ client["r1"].isRecording)) =>
               /\ caller'[k].pc = "idle"
               /\ caller'[k].result = "start_refused"
               /\ client' = client /\ hist' = hist]_vars

\* Each refusal has happened: connect on a disconnected client that had
\* recorded, start before connect, start during a capture.
C31_Witness ==
  /\ caller["k1"].result = "connect_refused"
  /\ client["r1"].exists /\ ~client["r1"].pcOpen
  /\ client["r1"].recorder = "inactive"

C31_WitnessStart ==
  /\ caller["k1"].result = "start_refused"
  /\ client["r1"].isRecording


\* The registry of the client holds the track t.
InRegistry(cl, t) ==
  /\ TrackStream(t) \in cl.streamKeys
  /\ \/ cl.remoteStreams[TrackStream(t)].audio = t
     \/ cl.remoteStreams[TrackStream(t)].video = t

\* C32: the end of a track removes only that track from the registry: every
\* other track that the registry held and that is still live is still held
\* after the step in which a track ended.
C32_EndRemovesOnlyEnded ==
  [][\A r \in Reqs :
       (client'[r].live # client[r].live
          /\ client'[r].live \subseteq client[r].live) =>
         \A u \in client'[r].live :
           InRegistry(client[r], u) => InRegistry(client'[r], u)]_vars


\* The start request r has been answered with a failure of startRecording.
StartFailed(r) == pc[r] = "done" /\ resp[r] = 500

\* C33: after a start has failed its code can be started again at once: no
\* entry of the failed start remains in the start route's table, and a
\* request is never answered 409 because of the entry of a start that failed.
C33_RetryAfterFailure ==
  /\ [](\A r \in Reqs :
          StartFailed(r) =>
            \A c \in DOMAIN activeRecordings : activeRecordings[c] # r)
  /\ [][\A q \in Reqs :
          (resp[q] # 409 /\ resp'[q] = 409) =>
            ~StartFailed(activeRecordings[code'[q]])]_vars


\* What belongs to the session made for r: its record in the manager, its
\* client (connection, track registry, participant table, recorder), the
\* tables that hold its id, its timers and tick, and the route's record.
OwnState(r) ==
  <<session[r], client[r], {m \in Reqs : Sid(r) \in activeSessions[m]},
    sessionData[r], cleanupTimer[r], tick[r]>>

C35_TableStatuses ==
  /\ \A m \in Reqs : \A id \in activeSessions[m] :
       session[SlotOf(m, id)].status \in {"recording", "stopping", "error"}
  /\ \A r \in Reqs :
       /\ session[r].status # "starting"
       /\ session[r].status = "stopped" =>
            \A m \in Reqs : Sid(r) \notin activeSessions[m]

\* A stop has set the status stopped and taken the session out of the table.
C35_Witness ==
  \E r \in Reqs :
    /\ session[r].status = "stopped"
    /\ Sid(r) \notin activeSessions[r]
    /\ \E k \in Callers : caller[k].pc = "done" /\ caller[k].result = "ok"


(***************************************************************************)
(* The recording session of r1 with callers that call again: a caller      *)
(* whose stopRecording, forceStopAllRecordings or read has returned is     *)
(* free to make its next call (recording-manager.ts:116-153, 319-334).     *)
(***************************************************************************)
CallerReturns(k) ==
  /\ turn = None
  /\ caller[k].pc \in {"done", "read"}
  /\ caller' = [caller EXCEPT ![k] = NoCaller]
  /\ SessionFrame
  /\ UNCHANGED <<activeSessions, session, client, tick, turn>>

NextRetry ==
  \/ \E st \in {"connected", "disconnected", "failed"} :
       TransportChange("r1", st)
  \/ \E t \in StartTracks : TrackArrived("r1", t)
  \/ \E t \in StartTracks : TrackEnded("r1", t)
  \/ \E size \in ChunkSizes : RecorderData("r1", size)
  \/ \E size \in ChunkSizes : OldRecorderStopped("r1", size)
  \/ RecorderError("r1")
  \/ \E k \in Callers, id \in {Sid("r1"), "session_unknown"} :
       StopCall(k, "r1", id)
  \/ \E k \in Callers : ForceStopAll(k, "r1")
  \/ \E k \in Callers : ForceNext(k)
  \/ \E size \in ChunkSizes : RecorderStopped("r1", size)
  \/ \E k \in Callers : StopDisconnect(k)
  \/ \E k \in Callers : StopFinish(k)
  \/ \E k \in Callers : CallerReturns(k)

SpecRetry == InitRec /\ [][NextRetry]_vars

\* The stops of the session of r that caller record c has seen fail.
FailedStops(c, r) ==
  IF c.force
  THEN Cardinality({i \in DOMAIN c.tried : c.tried[i] = <<Sid(r), "error">>})
  ELSE IF c.pc = "done" /\ c.id = Sid(r) /\ c.result = "error" THEN 1 ELSE 0

\* C36: from a state in which a session has status error and is in the
\* table, every step leaves it there with status error, and a stopRecording
\* of its id that starts in the step (by itself or in the loop of
\* forceStopAllRecordings) fails in that step: it does not get to wait for
\* the recorder and it does not return an artifact.
C36_ErrorIsFinal ==
  [][\A r \in Reqs :
       (session[r].status = "error" /\ Sid(r) \in activeSessions["r1"])
         => /\ Sid(r) \in activeSessions'["r1"]
            /\ session'[r].status = "error"
            /\ \A k \in Callers :
                 (/\ caller[k].pc \in {"idle", "f_loop"}
                  /\ caller'[k].id = Sid(r)
                  /\ caller'[k] # caller[k]
                  /\ caller[k].todo # <<>> \/ ~caller'[k].force)
                   => FailedStops(caller'[k], r)
                        = FailedStops(caller[k], r) + 1]_vars

\* A stop of the session failed, and after it a forceStopAllRecordings
\* failed to stop it too; the session is still in the table.
C36_Witness ==
  /\ session["r1"].status = "error"
  /\ Sid("r1") \in activeSessions["r1"]
  /\ \E k, j \in Callers :
       /\ k # j
       /\ FailedStops(caller[k], "r1") = 1 /\ ~caller[k].force
       /\ FailedStops(caller[j], "r1") = 1 /\ caller[j].force


\* Both callers have called stopRecording for the session of r1, the later
\* one while the earlier one was waiting for the recorder's stop event.
StoppedTwiceAtOnce ==
  /\ \A k \in Callers : caller[k].id = Sid("r1") /\ caller[k].pc # "idle"
  /\ \E k \in Callers : caller[k].pc = "waiting"

C39_IdIsKey ==
  \A r \in Reqs : \A p \in client[r].participantKeys :
    client[r].participants[p].id = p


\* C40: a poll that raises an error does not end the conference wait: the
\* wait goes on to its next poll, at least the interval later and before the
\* timeout, or it is over because the timeout has passed, and then it fails
\* with "no active conference"; so does a wait in which every poll raised.
C40_PollErrorsAreRetried ==
  /\ [][\A r \in Reqs :
          (Polling(r) /\ hist'[r] # hist[r] /\ hist'[r].erred)
            => \/ /\ Polling(r)'
                  /\ hist'[r].polls = hist[r].polls + 1
                  /\ elapsed'[r] >= elapsed[r] + ConferenceIntervalMs
                  /\ elapsed'[r] < ConferenceTimeoutMs
               \/ /\ pc'[r] = "done"
                  /\ hist'[r].stage = "noconference"
                  /\ elapsed'[r] >= ConferenceTimeoutMs
                  /\ resp'[r] = 500]_vars
  /\ [](\A r \in Reqs :
          (~Polling(r) /\ hist[r].polls > 0 /\ hist[r].allErred)
            => /\ hist[r].stage = "noconference"
               /\ elapsed[r] >= ConferenceTimeoutMs
               /\ ~hist[r].conference)

\* A wait whose six polls all raised an error has given up.
C40_Witness ==
  \E r \in Reqs :
    /\ hist[r].stage = "noconference"
    /\ hist[r].allErred /\ hist[r].erred
    /\ hist[r].polls = 6

====
